---- MODULE Spec2Model ----
(***************************************************************************)
(* A model of the ePermits pipeline: the sqlite record store (db.py), the  *)
(* browser session of the scraper (scraper.py: login, search, pagination   *)
(* and the detail-visit loop), the geocoder and the imagery fetcher        *)
(* (geo_imagery.py), the retry wrapper (utils.py), the thumbnail back-fill *)
(* (thumbnails.py) and the report reader (generate_report.py).             *)
(*                                                                         *)
(* Python values are modelled as follows.                                  *)
(*   Optional[T]      None is <<>>, a present value v is <<v>>.            *)
(*   float            an integer; 0 is 0.0, the only falsy number.         *)
(*   str              a tuple of pieces of text: a permit number is       *)
(*                    <<"A", "/", "1">>, an href <<"/cap/1">>, '' is <<>>.  *)
(*   datetime         a record [day, micro]; its isoformat() text is the   *)
(*                    tuple <<day, 0>> (micro = 0, no fraction printed) or *)
(*                    <<day, 0, micro>>; text order is lexicographic.      *)
(*   details dict     a record of the extracted fields.                    *)
(*   JSON text        [obj, quoted]: the text of object obj, passed        *)
(*                    `quoted` times more through json.dumps as a str.     *)
(***************************************************************************)
EXTENDS Integers, Sequences, FiniteSets

VARIABLES
    rows,       \* table permits, in rowid order: a sequence of rows
    files,      \* the thumbnail files that exist under DATA_DIR/thumbs
    ev,         \* the operation performed by the latest step, with its inputs and results
    written,    \* history: permit_number -> arguments of the latest upsert_permit for it
    inserted,   \* history: the permit_numbers ever passed to upsert_permit
    extracted,  \* history: permit_number -> details dict the scrape last extracted for it
    pc,         \* "idle", or "detail" while run_scrape is in its detail-visit loop
    permits,    \* run_scrape: the permit links collected by the pagination loop
    pos,        \* run_scrape: index in permits of the next item of the detail loop
    count,      \* run_scrape: the items stored so far
    max_items,  \* run_scrape: its argument
    logged_in,  \* run_scrape: whether a login strategy has succeeded
    searched,   \* history: whether the search was submitted without an exception
    page_idx,   \* run_scrape: the result pages the pagination loop has read
    seen_hrefs, \* run_scrape: the hrefs collected so far
    visited,    \* history: the items of the detail loop so far, in order: the href it
                \* navigated to and whether db.upsert_permit completed for it
    retry,      \* the frame of a running retry_backoff wrapper, and its history
    handles,    \* the operations whose store handle (DB(DB_PATH)) is open
    main        \* run_daily.main: the statement it is at, and what it has done so far

store == <<rows, files>>
history == <<written, inserted, extracted>>
session == <<logged_in, searched, page_idx, seen_hrefs>>
scrape == <<pc, permits, pos, count, max_items, session, visited>>
process == <<handles, main>>
vars == <<rows, files, ev, written, inserted, extracted, pc, permits, pos, count, max_items,
          logged_in, searched, page_idx, seen_hrefs, visited, retry, handles, main>>

----------------------------------------------------------------------------
(* Bounds of the model *)

MaxDay == 2
MaxLimit == 2

----------------------------------------------------------------------------
(* Values *)

None == <<>>
Some(x) == <<x>>

\* Python truthiness of an Optional[float]: None and 0.0 are falsy.
TruthyNum(x) == x # None /\ x[1] # 0

\* A str is a tuple of pieces of text; '' is the empty tuple.
\* Python truthiness of an Optional[str]: None and '' are falsy.
TruthyStr(x) == x # None /\ x[1] # <<>>

\* Python's `a or b` on Optional[str] values.
pyor(a, b) == IF TruthyStr(a) THEN a ELSE b

Min(a, b) == IF a <= b THEN a ELSE b

PermitNumbers == {<<"A", "/", "1">>, <<"B">>}

Addresses == {<<"1 Main St">>}

\* datetime values and datetime.isoformat()
Micros == {0, 5}

DateTimes == [day : 1..MaxDay, micro : Micros]

isoformat(dt) == IF dt.micro = 0 THEN <<dt.day, 0>> ELSE <<dt.day, 0, dt.micro>>

Timestamps == {isoformat(dt) : dt \in DateTimes}

\* sqlite's BINARY collation on TEXT: bytewise, a proper prefix sorts first.
TextLeq(a, b) ==
    LET n == Min(Len(a), Len(b))
        diff == {i \in 1..n : a[i] # b[i]}
    IN  IF diff = {}
        THEN Len(a) <= Len(b)
        ELSE LET i == CHOOSE k \in diff : \A j \in diff : k <= j
             IN  a[i] < b[i]

\* sqlite's date(): the calendar date of a time string.
date(ts) == ts[1]

----------------------------------------------------------------------------
(* json.dumps / json.loads on the values the program passes them *)

\* A Python value handed to json.dumps: a dict, or a str that is itself JSON text.
PyDict(m) == [type |-> "dict", obj |-> m, quoted |-> 0]
PyStr(t) == [type |-> "str", obj |-> t.obj, quoted |-> t.quoted]

\* json.dumps: a dict becomes the text of the object; a str becomes a JSON string
\* literal, one level of quoting around the text it held.
dumps(v) ==
    IF v.type = "dict"
    THEN [obj |-> v.obj, quoted |-> 0]
    ELSE [obj |-> v.obj, quoted |-> v.quoted + 1]

\* json.loads: the text of an object gives the dict; a string literal gives the str
\* it quotes.
loads(t) ==
    IF t.quoted = 0
    THEN PyDict(t.obj)
    ELSE PyStr([obj |-> t.obj, quoted |-> t.quoted - 1])

----------------------------------------------------------------------------
(* db.py: class DB *)

HasPermit(rs, permit_number) == \E i \in DOMAIN rs : rs[i].permit_number = permit_number

RowOf(rs, permit_number) == rs[CHOOSE i \in DOMAIN rs : rs[i].permit_number = permit_number]

StoredNumbers(rs) == {rs[i].permit_number : i \in DOMAIN rs}

\* A plain INSERT without the ON CONFLICT clause and without the UNIQUE constraint.
upsert_permit_insert_only(rs, permit_number, address, lat, lon, details, scraped_at, thumbnail_path) ==
    Append(rs, [permit_number |-> permit_number, address |-> address, lat |-> lat,
                lon |-> lon, details_json |-> dumps(details),
                thumbnail_path |-> thumbnail_path, scraped_at |-> scraped_at])

\* ON CONFLICT ... SET thumbnail_path = COALESCE(excluded.thumbnail_path, thumbnail_path).
upsert_permit_keep_thumbnail(rs, permit_number, address, lat, lon, details, scraped_at, thumbnail_path) ==
    LET new(old) == [permit_number |-> permit_number, address |-> address, lat |-> lat,
                     lon |-> lon, details_json |-> dumps(details),
                     thumbnail_path |-> IF thumbnail_path = None THEN old ELSE thumbnail_path,
                     scraped_at |-> scraped_at]
    IN  IF HasPermit(rs, permit_number)
        THEN [i \in DOMAIN rs |->
                 IF rs[i].permit_number = permit_number THEN new(rs[i].thumbnail_path) ELSE rs[i]]
        ELSE Append(rs, new(None))

\* The conflict target is the address instead of the permit_number.
upsert_permit_conflict_on_address(rs, permit_number, address, lat, lon, details, scraped_at, thumbnail_path) ==
    LET new == [permit_number |-> permit_number, address |-> address, lat |-> lat,
                lon |-> lon, details_json |-> dumps(details),
                thumbnail_path |-> thumbnail_path, scraped_at |-> scraped_at]
        kept == SelectSeq(rs, LAMBDA r : r.address # address /\ r.permit_number # permit_number)
    IN  Append(kept, new)

\* On a conflict scraped_at is set in every row: an UPDATE without its WHERE.
upsert_permit_touch_all(rs, permit_number, address, lat, lon, details, scraped_at, thumbnail_path) ==
    LET new == [permit_number |-> permit_number, address |-> address, lat |-> lat,
                lon |-> lon, details_json |-> dumps(details),
                thumbnail_path |-> thumbnail_path, scraped_at |-> scraped_at]
    IN  IF HasPermit(rs, permit_number)
        THEN [i \in DOMAIN rs |-> IF rs[i].permit_number = permit_number THEN new
                                  ELSE [rs[i] EXCEPT !.scraped_at = scraped_at]]
        ELSE Append(rs, new)

\* INSERT ... ON CONFLICT(permit_number) DO UPDATE SET every other column.
upsert_permit(rs, permit_number, address, lat, lon, details, scraped_at, thumbnail_path) ==
    LET new == [permit_number |-> permit_number, address |-> address, lat |-> lat,
                lon |-> lon, details_json |-> dumps(details),
                thumbnail_path |-> thumbnail_path, scraped_at |-> scraped_at]
    IN  IF HasPermit(rs, permit_number)
        THEN [i \in DOMAIN rs |-> IF rs[i].permit_number = permit_number THEN new ELSE rs[i]]
        ELSE Append(rs, new)

\* The orders of the rows of rs that ORDER BY scraped_at ASC allows (rows with equal
\* scraped_at come in any order).
RowOrders(rs) ==
    {p \in [DOMAIN rs -> DOMAIN rs] : \A i, j \in DOMAIN rs : i # j => p[i] # p[j]}

OrderedAsc(rs) ==
    {[i \in DOMAIN rs |-> rs[p[i]]] : p \in
        {q \in RowOrders(rs) :
            \A i, j \in DOMAIN rs : i < j => TextLeq(rs[q[i]].scraped_at, rs[q[j]].scraped_at)}}

OrderedDesc(rs) ==
    {[i \in DOMAIN rs |-> rs[p[i]]] : p \in
        {q \in RowOrders(rs) :
            \A i, j \in DOMAIN rs : i < j => TextLeq(rs[q[j]].scraped_at, rs[q[i]].scraped_at)}}

\* ORDER BY scraped_at DESC without the LIMIT clause.
get_recent_unlimited(rs, limit) == OrderedDesc(rs)

\* SELECT * FROM permits ORDER BY scraped_at DESC LIMIT ?  (the possible results)
get_recent(rs, limit) == {SubSeq(s, 1, Min(limit, Len(s))) : s \in OrderedDesc(rs)}

\* The WHERE clause compares the whole time strings instead of their dates.
get_since_exact_time(rs, since_date) ==
    OrderedAsc(SelectSeq(rs, LAMBDA r : r.scraped_at = since_date))

\* SELECT * FROM permits WHERE date(scraped_at) = date(?) ORDER BY scraped_at ASC
get_since(rs, since_date) ==
    OrderedAsc(SelectSeq(rs, LAMBDA r : date(r.scraped_at) = date(since_date)))

----------------------------------------------------------------------------
(* The store with the histories the claims speak of *)

NoWrite == [permit |-> None]

Args(permit_number, address, lat, lon, details, scraped_at, thumbnail_path) ==
    [permit |-> Some(permit_number), address |-> address, lat |-> lat, lon |-> lon,
     details |-> details, scraped_at |-> scraped_at, thumbnail_path |-> thumbnail_path]

\* The store and its histories, as one value that a loop can thread through.
Db == [rows |-> rows, files |-> files, written |-> written, inserted |-> inserted]

\* db.upsert_permit(...) on such a value
Upserted(db, permit_number, address, lat, lon, details, scraped_at, thumbnail_path) ==
    [db EXCEPT
        !.rows = upsert_permit(db.rows, permit_number, address, lat, lon, details,
                               scraped_at, thumbnail_path),
        !.written = [db.written EXCEPT ![permit_number] =
                        Args(permit_number, address, lat, lon, details, scraped_at,
                             thumbnail_path)],
        !.inserted = db.inserted \cup {permit_number}]

SetDb(db) ==
    /\ rows' = db.rows
    /\ files' = db.files
    /\ written' = db.written
    /\ inserted' = db.inserted

----------------------------------------------------------------------------
(* utils.py: retry_backoff *)

max_attempts == 4

\* The wrapper around a function that raises on its first `failures` calls and then
\* returns `value`: it calls again after each exception until max_attempts calls
\* have raised, and then re-raises.
retry_backoff(attempts, failures, value) ==
    [raised |-> failures >= attempts,
     calls |-> Min(failures + 1, attempts),
     value |-> value]

\* The decorator's other arguments, as geo_imagery.py and addy_provider.py give them.
\* Time is counted in tenths of a time-unit: 0.5 is 5.
initial_delay == 5

factor == 2

\* The functions the repository wraps.
RetriedFunctions == {"geocode_address", "send_via_addy"}

\* What one call of the wrapped function does: it returns a value or raises.
\* KeyboardInterrupt is not an Exception: `except exceptions` lets it through.
Exceptions == {"Timeout", "ConnectionError", "ValueError", "KeyboardInterrupt"}

IsCaught(exc) == exc # "KeyboardInterrupt"

FnOutcomes ==
    {[kind |-> "return", value |-> "result"]}
        \cup {[kind |-> "raise", value |-> x] : x \in Exceptions}

\* The frame of wrapper(*args, **kwargs): its locals attempt and delay, and as history
\* the calls of fn it made, the exceptions they raised and the time.sleep calls.
NoFrame ==
    [status |-> "none", fn |-> "", attempt |-> 0, delay |-> 0, calls |-> 0,
     errors |-> <<>>, sleeps |-> <<>>, result |-> None, error |-> None]

\* wrapper is entered: attempt = 0, delay = initial_delay
retry_enter(fn) ==
    [status |-> "running", fn |-> fn, attempt |-> 0, delay |-> initial_delay, calls |-> 0,
     errors |-> <<>>, sleeps |-> <<>>, result |-> None, error |-> None]

\* The wrapper gives up one attempt late: `if attempt > max_attempts`.
retry_iteration_one_more(f, outcome) ==
    LET called == [f EXCEPT !.calls = f.calls + 1]
    IN  IF outcome.kind = "return"
        THEN [called EXCEPT !.status = "returned", !.result = Some(outcome.value)]
        ELSE IF ~IsCaught(outcome.value)
        THEN [called EXCEPT !.status = "raised", !.error = Some(outcome.value)]
        ELSE LET caught == [called EXCEPT !.errors = Append(f.errors, outcome.value),
                                          !.attempt = f.attempt + 1]
             IN  IF caught.attempt > max_attempts
                 THEN [caught EXCEPT !.status = "raised", !.error = Some(outcome.value)]
                 ELSE [caught EXCEPT !.sleeps = Append(f.sleeps, f.delay),
                                     !.delay = f.delay * factor]

\* One pass of `while True`: fn is called; its value is returned; an exception that
\* is not caught leaves the wrapper; a caught one is counted, and is re-raised when
\* attempt has reached max_attempts, else the wrapper sleeps and multiplies delay.
retry_iteration(f, outcome) ==
    LET called == [f EXCEPT !.calls = f.calls + 1]
    IN  IF outcome.kind = "return"
        THEN [called EXCEPT !.status = "returned", !.result = Some(outcome.value)]
        ELSE IF ~IsCaught(outcome.value)
        THEN [called EXCEPT !.status = "raised", !.error = Some(outcome.value)]
        ELSE LET caught == [called EXCEPT !.errors = Append(f.errors, outcome.value),
                                          !.attempt = f.attempt + 1]
             IN  IF caught.attempt >= max_attempts
                 THEN [caught EXCEPT !.status = "raised", !.error = Some(outcome.value)]
                 ELSE [caught EXCEPT !.sleeps = Append(f.sleeps, f.delay),
                                     !.delay = f.delay * factor]

\* A wrapped function is called.
RetryCall ==
    /\ retry.status # "running"
    /\ \E fn \in RetriedFunctions :
        /\ retry' = retry_enter(fn)
        /\ ev' = [op |-> "retry_call", fn |-> fn]
    /\ UNCHANGED <<store, history, scrape, process>>

\* The wrapper makes its next attempt.
RetryAttempt ==
    /\ retry.status = "running"
    /\ \E outcome \in FnOutcomes :
        /\ retry' = retry_iteration(retry, outcome)
        /\ ev' = [op |-> "retry_attempt", fn |-> retry.fn]
    /\ UNCHANGED <<store, history, scrape, process>>

----------------------------------------------------------------------------
(* geo_imagery.py *)

\* The geocoder's answers: a status and the JSON array of candidates.
Candidate(lat, lon) == [lat |-> lat, lon |-> lon]

GeoResponses ==
    {[status |-> 200, json |-> <<>>],
     [status |-> 200, json |-> <<Candidate(7, 8)>>],
     [status |-> 200, json |-> <<Candidate(0, 0), Candidate(7, 8)>>],
     [status |-> 500, json |-> <<>>]}

\* The body of geocode_address takes the last candidate instead of the first.
geocode_request_last(resp) ==
    IF resp.status = 200 /\ resp.json # <<>>
    THEN <<Some(resp.json[Len(resp.json)].lat), Some(resp.json[Len(resp.json)].lon)>>
    ELSE <<None, None>>

\* The body of geocode_address returns a latitude without a longitude when the
\* service answers without candidates.
geocode_request_half(resp) ==
    IF resp.status = 200
    THEN IF resp.json # <<>>
         THEN <<Some(resp.json[1].lat), Some(resp.json[1].lon)>>
         ELSE <<Some(0), None>>
    ELSE <<None, None>>

\* The body of geocode_address: one request.
geocode_request(resp) ==
    IF resp.status = 200 /\ resp.json # <<>>
    THEN <<Some(resp.json[1].lat), Some(resp.json[1].lon)>>
    ELSE <<None, None>>

\* geocode_address under @retry_backoff(max_attempts=4, ...): the request raises
\* `failures` times before the service answers `resp`.
geocode_address(failures, resp) ==
    LET r == retry_backoff(max_attempts, failures, geocode_request(resp))
    IN  [called |-> TRUE,
         raised |-> r.raised,
         answer |-> IF r.raised THEN "raised"
                    ELSE IF resp.status # 200 THEN "non200"
                    ELSE IF resp.json = <<>> THEN "empty"
                    ELSE "candidate",
         first |-> IF ~r.raised /\ resp.status = 200 /\ resp.json # <<>>
                   THEN Some(<<resp.json[1].lat, resp.json[1].lon>>)
                   ELSE None,
         value |-> IF r.raised THEN <<None, None>> ELSE r.value]

GeoNotCalled ==
    [called |-> FALSE, raised |-> FALSE, answer |-> "not_called", first |-> None,
     value |-> <<None, None>>]

GeoResults == {geocode_address(f, resp) : f \in 0..max_attempts, resp \in GeoResponses}

\* What the imagery services do during one call of fetch_streetview_thumbnail:
\* whether GOOGLE_API_KEY is set, the street-level request, whether streaming its
\* body to outpath goes through, the satellite stitch.
ImageryEnvs ==
    [key : BOOLEAN, street : {"200", "non200", "raise"}, write : BOOLEAN, sat : BOOLEAN]

\* fetch_satellite_thumbnail: the path, or an exception.
fetch_satellite_thumbnail(sat_ok) == IF sat_ok THEN "satellite" ELSE "raise"

\* The street-level branch of fetch_streetview_thumbnail returns the path: a key is
\* set, the request answers 200 and the body is written without an exception.
street_level(e) == e.key /\ e.street = "200" /\ e.write

\* fetch_streetview_thumbnail: the street-level image when that branch returns; in
\* every other case the satellite thumbnail.
fetch_streetview_thumbnail(e) ==
    IF street_level(e) THEN "street" ELSE fetch_satellite_thumbnail(e.sat)

\* The default of the parameter `size` of both functions.
default_size == <<400, 300>>

\* A call fetch_satellite_thumbnail(lat, lon, outpath, size=size), as its caller
\* sees it: the arguments, and str(outpath) returned or an exception raised.
fetch_satellite_thumbnail_call(lat, lon, outpath, size, sat_ok) ==
    [lat |-> lat, lon |-> lon, outpath |-> outpath, size |-> size,
     raised |-> ~sat_ok, path |-> IF sat_ok THEN Some(outpath) ELSE None]

\* The fallback passes no size: fetch_satellite_thumbnail(lat, lon, outpath).
fetch_streetview_thumbnail_call_default_size(lat, lon, outpath, size, e) ==
    IF street_level(e)
    THEN [raised |-> FALSE, path |-> Some(outpath), satellite |-> <<>>]
    ELSE LET c == fetch_satellite_thumbnail_call(lat, lon, outpath, default_size, e.sat)
         IN  [raised |-> c.raised, path |-> c.path, satellite |-> <<c>>]

\* A call fetch_streetview_thumbnail(lat, lon, outpath, size): what it returns or
\* raises, and the calls of fetch_satellite_thumbnail it makes.
fetch_streetview_thumbnail_call(lat, lon, outpath, size, e) ==
    IF street_level(e)
    THEN [raised |-> FALSE, path |-> Some(outpath), satellite |-> <<>>]
    ELSE LET c == fetch_satellite_thumbnail_call(lat, lon, outpath, size, e.sat)
         IN  [raised |-> c.raised, path |-> c.path, satellite |-> <<c>>]

\* The arguments of the direct calls.
ImageryPoints == {<<39, -104>>, <<0, 0>>}

ImagerySizes == {default_size, <<200, 150>>}

ImageryPaths == {<<"thumbs", "A", "_", "1", ".jpg">>, <<"thumbs", "B", ".jpg">>}

\* fetch_streetview_thumbnail(lat, lon, outpath, size) called directly
CallFetchStreetview ==
    \E p \in ImageryPoints, outpath \in ImageryPaths, size \in ImagerySizes,
       e \in ImageryEnvs :
        LET c == fetch_streetview_thumbnail_call(p[1], p[2], outpath, size, e)
        IN  /\ ev' = [op |-> "fetch_streetview_thumbnail", lat |-> p[1], lon |-> p[2],
                      outpath |-> outpath, size |-> size, key |-> e.key,
                      street |-> IF e.key THEN e.street ELSE "not_requested",
                      written |-> e.key /\ e.street = "200" /\ e.write,
                      raised |-> c.raised, path |-> c.path, satellite |-> c.satellite]
            /\ files' = IF c.raised THEN files ELSE files \cup {outpath}
            /\ UNCHANGED <<rows, history, scrape, retry, process>>

\* The defaults of the parameters zoom, tiles and tilesize of
\* fetch_satellite_thumbnail.
zoom == 18

default_tiles == 3

default_tilesize == 256

\* _deg2num(lat, lon, zoom): xtile is int((lon + 180) / 360 * 2^zoom); ytile is the
\* value the floating-point Mercator formula yields at zoom 18 for the whole-degree
\* latitudes of the model.
deg2num(lat, lon) ==
    <<((lon + 180) * 2^zoom) \div 360,
      CASE lat = 0 -> 131072
        [] lat = 39 -> 100185
        [] lat = -39 -> 161958>>

\* range(-half, half + 1) with half = tiles // 2
tile_range(tiles) ==
    LET half == tiles \div 2
    IN  [i \in 1..(2 * half + 1) |-> i - 1 - half]

\* The tile requests of the two nested loops in the order they are made: the tile
\* position (tx, ty) in the URL and the offset (px, py) at which the tile is pasted.
tile_requests(center, tiles, tilesize) ==
    LET r == tile_range(tiles)
        n == Len(r)
        half == tiles \div 2
    IN  [k \in 1..(n * n) |->
            LET dx == r[((k - 1) \div n) + 1]
                dy == r[((k - 1) % n) + 1]
            IN  [tx |-> center[1] + dx, ty |-> center[2] + dy,
                 px |-> (dx + half) * tilesize, py |-> (dy + half) * tilesize]]

\* What a tile request does: "200" (the image is decoded), "non200", or "raise" (the
\* request or the decoding raises).
TileOutcomes == {"200", "non200", "raise"}

\* The tile requests are in no try: the first one that raises leaves the function.
paste_tiles_no_try(requests, outcomes) ==
    [raised |-> \E k \in DOMAIN requests : outcomes[k] = "raise",
     pasted |-> [k \in DOMAIN requests |->
                    [px |-> requests[k].px, py |-> requests[k].py,
                     img |-> IF outcomes[k] = "200"
                             THEN <<"tile", requests[k].tx, requests[k].ty>>
                             ELSE <<"gray">>]]]

\* canvas.paste(tile_img, (px, py)) for each request: the decoded tile, or the gray
\* placeholder when the request raises or answers another status than 200.
paste_tiles(requests, outcomes) ==
    [raised |-> FALSE,
     pasted |-> [k \in DOMAIN requests |->
                    [px |-> requests[k].px, py |-> requests[k].py,
                     img |-> IF outcomes[k] = "200"
                             THEN <<"tile", requests[k].tx, requests[k].ty>>
                             ELSE <<"gray">>]]]

Max(a, b) == IF a >= b THEN a ELSE b

\* The origin is not clamped: left = cx - w // 2, top = cy - h // 2.
crop_box_unclamped(canvas_size, size) ==
    LET cx == canvas_size \div 2
        cy == canvas_size \div 2
        left == cx - size[1] \div 2
        top == cy - size[2] \div 2
    IN  <<left, top, left + size[1], top + size[2]>>

\* The box (left, top, right, bottom) given to canvas.crop.
crop_box(canvas_size, size) ==
    LET cx == canvas_size \div 2
        cy == canvas_size \div 2
        left == Max(0, cx - size[1] \div 2)
        top == Max(0, cy - size[2] \div 2)
    IN  <<left, top, left + size[1], top + size[2]>>

\* fetch_satellite_thumbnail(lat, lon, outpath, size, zoom, tiles, tilesize): the
\* requests, the pastes, the crop box, the size of the cropped image (PIL pads what
\* lies outside the canvas), and str(outpath) or an exception; save_ok tells whether
\* mkdir and save go through.
satellite_thumbnail(lat, lon, outpath, size, tiles, tilesize, outcomes, save_ok) ==
    LET requests == tile_requests(deg2num(lat, lon), tiles, tilesize)
        tiled == paste_tiles(requests, outcomes)
        box == crop_box(tiles * tilesize, size)
        raised == tiled.raised \/ ~save_ok
    IN  [requests |-> requests, pasted |-> tiled.pasted, canvas_size |-> tiles * tilesize,
         box |-> box, cropped |-> <<box[3] - box[1], box[4] - box[2]>>,
         raised |-> raised, path |-> IF raised THEN None ELSE Some(outpath)]

\* The number of tile requests a call with `tiles` makes.
TileCount(tiles) == Len(tile_range(tiles)) * Len(tile_range(tiles))

\* A call of fetch_satellite_thumbnail that is about to be made.
SatelliteCall(lat, lon, outpath, size, tiles, tilesize, outcomes, save_ok) ==
    [op |-> "call_fetch_satellite_thumbnail", lat |-> lat, lon |-> lon,
     outpath |-> outpath, size |-> size, tiles |-> tiles, tilesize |-> tilesize,
     outcomes |-> outcomes, save_ok |-> save_ok]

\* fetch_satellite_thumbnail is called with the arguments in ev.
FetchSatelliteThumbnail ==
    /\ ev.op = "call_fetch_satellite_thumbnail"
    /\ LET t == satellite_thumbnail(ev.lat, ev.lon, ev.outpath, ev.size, ev.tiles,
                                    ev.tilesize, ev.outcomes, ev.save_ok)
       IN  /\ ev' = [op |-> "fetch_satellite_thumbnail", lat |-> ev.lat, lon |-> ev.lon,
                     outpath |-> ev.outpath, size |-> ev.size, tiles |-> ev.tiles, tilesize |-> ev.tilesize,
                     outcomes |-> ev.outcomes, save_ok |-> ev.save_ok,
                     center |-> deg2num(ev.lat, ev.lon), requests |-> t.requests,
                     pasted |-> t.pasted, canvas_size |-> t.canvas_size, box |-> t.box,
                     cropped |-> t.cropped, raised |-> t.raised, path |-> t.path]
           /\ files' = IF t.raised THEN files ELSE files \cup {ev.outpath}
    /\ UNCHANGED <<rows, history, scrape, retry, process>>

----------------------------------------------------------------------------
(* run_daily.py: main as the caller of run_scrape, generate_recent_thumbnails and
   render_report *)

\* main is not running: the operations are called directly (python scraper.py, ...).
\* Otherwise pc is the statement main is at: the name of the operation it calls or is
\* in, "weekday" (lines 32-35), "send" (lines 50-81), "done" (main returned), or
\* "raised" (an exception left main); with it, what main has done: whether run_scrape
\* returned, yesterday's weekday once computed (Monday is 0), how the thumbnail step
\* went, whether render_report returned and whether a send was attempted.
NoMain ==
    [pc |-> "none", scraped |-> FALSE, weekday |-> None, thumbnails |-> "not_called",
     rendered |-> FALSE, sent |-> FALSE]

\* The operation fn can begin: it is called directly, or main is at its call.
Callable(fn) == main.pc \in {"none", fn}

\* main after the operation it called has ended and main, with what it has done
\* noted in m, goes on to the statement `next`.
Returned(m, next) == IF main.pc = "none" THEN main ELSE [m EXCEPT !.pc = next]

\* main after an exception of the operation it called, where the call is in no try.
Propagated(m) == IF m.pc = "none" THEN m ELSE [m EXCEPT !.pc = "raised"]

----------------------------------------------------------------------------
(* scraper.py *)

\* str.replace("/", "_")
RECURSIVE replace_slash(_)
replace_slash(t) ==
    IF t = <<>> THEN <<>>
    ELSE <<IF Head(t) = "/" THEN "_" ELSE Head(t)>> \o replace_slash(Tail(t))

\* DATA_DIR / 'thumbs' / f'{permit_number.replace("/","_")}.jpg'
thumb_fname(permit_number) == <<"thumbs">> \o replace_slash(permit_number) \o <<".jpg">>

\* Two items of a run, with the permit numbers in ev, reach the thumbnail step: the
\* path each one's thumbnail is written to.
ThumbnailPaths ==
    /\ ev.op = "items"
    /\ ev' = [op |-> "thumbnail_paths", first |-> ev.first, second |-> ev.second,
              paths |-> <<thumb_fname(ev.first), thumb_fname(ev.second)>>]
    /\ files' = files \cup {thumb_fname(ev.first), thumb_fname(ev.second)}
    /\ UNCHANGED <<rows, history, scrape, retry, process>>

\* A detail page: whether navigation to it succeeds, the stripped text under each
\* selector (None: no such element, or reading it raises), the body text, and the
\* decimal pairs the regular expression matches in page.content(), leftmost first.
Contents(pairs) == {[raised |-> TRUE, pairs |-> <<>>]} \cup [raised : {FALSE}, pairs : pairs]

Pages(caps, spans, addresses, pairs) ==
    [nav_ok : BOOLEAN,
     cap_id : {None, Some(<<>>)} \cup {Some(n) : n \in caps},
     span_permit : {None} \cup {Some(n) : n \in spans},
     lbl_address : addresses,
     div_address : {None},
     lbl_owner : {None},
     body : {Some(<<"body">>)},
     content : Contents(pairs)]

\* parse_permit_detail(page): the data dict
parse_permit_detail(page) ==
    [permit_number |-> pyor(pyor(page.cap_id, page.span_permit), None),
     address |-> pyor(pyor(page.lbl_address, page.div_address), None),
     owner |-> pyor(page.lbl_owner, None),
     raw_text |-> IF page.body = None THEN <<>> ELSE page.body[1]]

\* re.search(...) on page.content(): the first pair, or no match
page_match(content) ==
    IF content.raised \/ content.pairs = <<>> THEN None ELSE Some(content.pairs[1])

\* if (not lat or not lon) and address
needs_geocode(lat, lon, address) ==
    (~TruthyNum(lat) \/ ~TruthyNum(lon)) /\ TruthyStr(address)

\* The permit links a pagination loop can leave: no two with the same href.
Link(text, href) == [text |-> text, href |-> href]

LinkLists(links) ==
    {<<>>} \cup {<<a>> : a \in links}
           \cup {l \in {<<a, b>> : a, b \in links} : l[1].href # l[2].href}

MaxItems == 2

\* run_scrape(max_items) up to the detail loop: the store is opened, login, search
\* and pagination leave the list of permit links, count = 0.
StartScrape(links) ==
    /\ pc = "idle"
    /\ Callable("run_scrape")
    /\ \E m \in 1..MaxItems, l \in LinkLists(links) :
        /\ max_items' = m
        /\ permits' = l
    /\ pc' = "detail"
    /\ pos' = 1
    /\ count' = 0
    /\ visited' = <<>>
    /\ ev' = [op |-> "run_scrape"]
    /\ handles' = handles \cup {"run_scrape"}
    /\ UNCHANGED <<store, history, session, retry, main>>

\* if count >= max_items: break
cap_reached_off_by_one(n, cap) == n > cap

cap_reached(n, cap) == n >= cap

\* The upserts that completed in the run so far.
Upserts(v) == Cardinality({i \in DOMAIN v : v[i].stored})

\* The except clause ends the loop: the links after the failing one are not visited.
SkipItem_break(why, number, pair, address, geo, imagery, thumbs) ==
    /\ ev' = [op |-> "visit_item", stored |-> FALSE, why |-> why,
              permit_number |-> number, pair |-> pair, address |-> address,
              geo |-> geo.answer, first |-> geo.first, imagery |-> imagery,
              lat |-> None, lon |-> None, thumbnail_path |-> None]
    /\ files' = files \cup thumbs
    /\ pos' = Len(permits) + 1
    /\ visited' = Append(visited, [href |-> permits[pos].href, stored |-> FALSE])
    /\ UNCHANGED <<rows, history, pc, permits, count, max_items, session, retry, process>>

\* The except clause counts the failed item: count += 1 although nothing is stored.
SkipItem_counted(why, number, pair, address, geo, imagery, thumbs) ==
    /\ ev' = [op |-> "visit_item", stored |-> FALSE, why |-> why,
              permit_number |-> number, pair |-> pair, address |-> address,
              geo |-> geo.answer, first |-> geo.first, imagery |-> imagery,
              lat |-> None, lon |-> None, thumbnail_path |-> None]
    /\ files' = files \cup thumbs
    /\ pos' = pos + 1
    /\ count' = count + 1
    /\ visited' = Append(visited, [href |-> permits[pos].href, stored |-> FALSE])
    /\ UNCHANGED <<rows, history, pc, permits, max_items, session, retry, process>>

\* One item of the detail loop that ends in the except clause: nothing is stored.
SkipItem(why, number, pair, address, geo, imagery, thumbs) ==
    /\ ev' = [op |-> "visit_item", stored |-> FALSE, why |-> why,
              permit_number |-> number, pair |-> pair, address |-> address,
              geo |-> geo.answer, first |-> geo.first, imagery |-> imagery,
              lat |-> None, lon |-> None, thumbnail_path |-> None]
    /\ files' = files \cup thumbs
    /\ pos' = pos + 1
    /\ visited' = Append(visited, [href |-> permits[pos].href, stored |-> FALSE])
    /\ UNCHANGED <<rows, history, pc, permits, count, max_items, session, retry, process>>

\* One item of the detail loop that reaches db.upsert_permit and count += 1.
StoreItem(number, pair, data, geo, imagery, lat, lon, scraped_at, thumb) ==
    /\ ev' = [op |-> "visit_item", stored |-> TRUE, why |-> "ok",
              permit_number |-> Some(number), pair |-> pair, address |-> data.address,
              geo |-> geo.answer, first |-> geo.first, imagery |-> imagery,
              lat |-> lat, lon |-> lon, thumbnail_path |-> thumb]
    /\ SetDb(Upserted([Db EXCEPT !.files = files \cup {thumb[i] : i \in DOMAIN thumb}],
                      number, data.address, lat, lon, PyDict(data), scraped_at, thumb))
    /\ extracted' = [extracted EXCEPT ![number] = Some(data)]
    /\ pos' = pos + 1
    /\ count' = count + 1
    /\ visited' = Append(visited, [href |-> permits[pos].href, stored |-> TRUE])
    /\ UNCHANGED <<pc, permits, max_items, session, retry, process>>

\* The imagery services during the thumbnail step of an item, with a key set: the
\* street-level image arrives; it does not and the satellite stitch works; the stitch
\* fails inside fetch_streetview_thumbnail and works, or fails again, as last resort.
ItemImagery ==
    {[env |-> [key |-> TRUE, street |-> "200", write |-> TRUE, sat |-> TRUE],
      last_resort |-> TRUE],
     [env |-> [key |-> TRUE, street |-> "non200", write |-> TRUE, sat |-> TRUE],
      last_resort |-> TRUE],
     [env |-> [key |-> TRUE, street |-> "raise", write |-> TRUE, sat |-> FALSE],
      last_resort |-> TRUE],
     [env |-> [key |-> TRUE, street |-> "raise", write |-> TRUE, sat |-> FALSE],
      last_resort |-> FALSE]}

\* The inner try of the thumbnail step is missing: an exception of
\* fetch_streetview_thumbnail leaves the step.
fetch_thumbnail_no_last_resort(lat, lon, fname, e, sat2) ==
    IF ~(TruthyNum(lat) /\ TruthyNum(lon))
    THEN [imagery |-> "not_invoked", raised |-> FALSE, thumb_path |-> None]
    ELSE LET c == fetch_streetview_thumbnail_call(lat[1], lon[1], fname, default_size, e)
         IN  IF ~c.raised
             THEN [imagery |-> IF c.satellite = <<>> THEN "street" ELSE "satellite",
                   raised |-> FALSE, thumb_path |-> c.path]
             ELSE [imagery |-> "raise", raised |-> TRUE, thumb_path |-> None]

\* The thumbnail step of an item: `if lat and lon`, fetch_streetview_thumbnail, and on
\* its exception fetch_satellite_thumbnail as the last resort, whose exception leaves
\* thumb_path = None. The step itself raises nothing.
fetch_thumbnail(lat, lon, fname, e, sat2) ==
    IF ~(TruthyNum(lat) /\ TruthyNum(lon))
    THEN [imagery |-> "not_invoked", raised |-> FALSE, thumb_path |-> None]
    ELSE LET c == fetch_streetview_thumbnail_call(lat[1], lon[1], fname, default_size, e)
         IN  IF ~c.raised
             THEN [imagery |-> IF c.satellite = <<>> THEN "street" ELSE "satellite",
                   raised |-> FALSE, thumb_path |-> c.path]
             ELSE LET r == fetch_satellite_thumbnail_call(lat[1], lon[1], fname,
                                                          default_size, sat2)
                  IN  [imagery |-> IF r.raised THEN "raise" ELSE "satellite",
                       raised |-> FALSE, thumb_path |-> r.path]

\* The link text is taken first, the extracted number only when the text is empty.
item_permit_number_text_first(data, item) == pyor(Some(item.text), data.permit_number)[1]

\* permit_number = data.get('permit_number') or item['text']
item_permit_number(data, item) == pyor(data.permit_number, Some(item.text))[1]

\* One iteration of `for item in permits`, from the cap test to the except clause.
VisitItem(pages, clock) ==
    /\ pc = "detail"
    /\ pos <= Len(permits)
    /\ ~cap_reached(count, max_items)
    /\ \E page \in pages :
        IF ~page.nav_ok
        THEN SkipItem("goto", None, None, None, GeoNotCalled, "not_invoked", {})
        ELSE
        LET item == permits[pos]
            data == parse_permit_detail(page)
            permit_number == item_permit_number(data, item)
            address == data.address
            m == page_match(page.content)
            lat0 == IF m = None THEN None ELSE Some(m[1][1])
            lon0 == IF m = None THEN None ELSE Some(m[1][2])
        IN  \E geo \in IF needs_geocode(lat0, lon0, address) THEN GeoResults
                       ELSE {GeoNotCalled} :
            IF geo.raised
            THEN SkipItem("geocode", Some(permit_number), m, address, geo, "not_invoked", {})
            ELSE
            LET lat == IF geo.called THEN geo.value[1] ELSE lat0
                lon == IF geo.called THEN geo.value[2] ELSE lon0
                fname == thumb_fname(permit_number)
            IN  \E dt \in clock, db_ok \in BOOLEAN :
                \E t \in {fetch_thumbnail(lat, lon, fname, x.env, x.last_resort) :
                              x \in ItemImagery} :
                LET thumbs == {t.thumb_path[i] : i \in DOMAIN t.thumb_path}
                IN  IF t.raised
                    THEN SkipItem("thumbnail", Some(permit_number), m, address, geo,
                                  t.imagery, {})
                    ELSE IF db_ok
                    THEN StoreItem(permit_number, m, data, geo, t.imagery, lat, lon,
                                   isoformat(dt), t.thumb_path)
                    ELSE SkipItem("upsert", Some(permit_number), m, address, geo,
                                  t.imagery, thumbs)

\* The detail loop ends (the list is exhausted or count has reached max_items);
\* db.close(), browser.close().
FinishScrape ==
    /\ pc = "detail"
    /\ pos > Len(permits) \/ cap_reached(count, max_items)
    /\ pc' = "idle"
    /\ permits' = <<>>
    /\ pos' = 0
    /\ count' = 0
    /\ max_items' = 0
    /\ logged_in' = FALSE
    /\ searched' = FALSE
    /\ page_idx' = 0
    /\ seen_hrefs' = {}
    /\ visited' = <<>>
    /\ ev' = [op |-> "run_scrape_done", count |-> count, upserts |-> Upserts(visited),
              visited |-> Len(visited), links |-> Len(permits), max_items |-> max_items,
              open |-> {}]
    /\ handles' = handles \ {"run_scrape"}
    /\ main' = Returned([main EXCEPT !.scraped = TRUE], "weekday")
    /\ UNCHANGED <<store, history, retry>>

----------------------------------------------------------------------------
(* scraper.py: run_scrape before the detail loop *)

\* str.strip(), str.lower(), str.startswith(), `in` on the texts of the model: " " is
\* the whitespace piece, and the pieces with capitals are listed in lower_piece.
RECURSIVE lstrip(_)
lstrip(t) == IF t # <<>> /\ Head(t) = " " THEN lstrip(Tail(t)) ELSE t

RECURSIVE rstrip(_)
rstrip(t) == IF t # <<>> /\ t[Len(t)] = " " THEN rstrip(SubSeq(t, 1, Len(t) - 1)) ELSE t

strip(t) == rstrip(lstrip(t))

lower_piece(c) ==
    IF c = "JavaScript:" THEN "javascript:"
    ELSE IF c = "Disabled" THEN "disabled"
    ELSE c

lower(t) == [i \in DOMAIN t |-> lower_piece(t[i])]

startswith(t, piece) == t # <<>> /\ t[1] = piece

contains(t, piece) == \E i \in DOMAIN t : t[i] = piece

\* An exception leaves run_scrape: the locals are gone and db.close() is not reached;
\* the exception ends the process, which no caller of run_scrape catches it in, with
\* the store handle open.
RunRaises(at) ==
    /\ pc' = "idle"
    /\ permits' = <<>>
    /\ pos' = 0
    /\ count' = 0
    /\ max_items' = 0
    /\ logged_in' = FALSE
    /\ searched' = FALSE
    /\ page_idx' = 0
    /\ seen_hrefs' = {}
    /\ visited' = <<>>
    /\ ev' = [op |-> "run_scrape_raised", at |-> at, open |-> {"run_scrape"}]
    /\ handles' = {}
    /\ main' = Propagated(main)
    /\ UNCHANGED <<store, history, retry>>

\* run_scrape(max_items) is called: the store and the browser are opened and the
\* login page is loaded; page.goto is in no try.
BeginScrape(caps) ==
    /\ pc = "idle"
    /\ Callable("run_scrape")
    /\ \E m \in caps, goto_ok \in BOOLEAN :
        IF goto_ok
        THEN /\ pc' = "login"
             /\ max_items' = m
             /\ ev' = [op |-> "run_scrape"]
             /\ handles' = handles \cup {"run_scrape"}
             /\ UNCHANGED <<store, history, permits, pos, count, session, visited, retry,
                            main>>
        ELSE RunRaises("goto_login")

\* The login page: whether a submit control of strategy A can be clicked and the page
\* then settles, whether the fills and the click of strategy B go through, and the
\* frames of the page: whether a credential field is found in the frame, whether a
\* submit control is found and clicked and the page settles, whether the frame raises.
Frames == [fields : BOOLEAN, click : BOOLEAN, raises : BOOLEAN]

FrameLists == {<<>>} \cup {<<f>> : f \in Frames} \cup {<<f, g>> : f, g \in Frames}

LoginPages(frame_lists) == [a_click : BOOLEAN, b_ok : BOOLEAN, frames : frame_lists]

\* Strategy C, from frame i on
RECURSIVE strategy_c(_, _)
strategy_c(frames, i) ==
    IF i > Len(frames) THEN FALSE
    ELSE IF frames[i].raises \/ ~frames[i].fields THEN strategy_c(frames, i + 1)
    ELSE IF frames[i].click THEN TRUE
    ELSE strategy_c(frames, i + 1)

\* The three login strategies: logged_in, and the strategy that set it.
login(p) ==
    IF p.a_click THEN [logged_in |-> TRUE, strategy |-> "A"]
    ELSE IF p.b_ok THEN [logged_in |-> TRUE, strategy |-> "B"]
    ELSE IF strategy_c(p.frames, 1) THEN [logged_in |-> TRUE, strategy |-> "C"]
    ELSE [logged_in |-> FALSE, strategy |-> "none"]

\* The login stage: every exception of the strategies is caught.
Login(login_pages) ==
    /\ pc = "login"
    /\ \E p \in login_pages :
        /\ logged_in' = login(p).logged_in
        /\ ev' = [op |-> "login", logged_in |-> login(p).logged_in,
                  strategy |-> login(p).strategy, frames |-> Len(p.frames)]
    /\ pc' = "search"
    /\ UNCHANGED <<store, history, permits, pos, count, max_items, searched, page_idx,
                   seen_hrefs, visited, retry, process>>

\* A failing search leaves run_scrape: the try around fill and click is missing.
Search_fatal(outcomes) ==
    /\ pc = "search"
    /\ \E goto_ok \in BOOLEAN, ok \in outcomes :
        IF ~goto_ok
        THEN RunRaises("goto_search")
        ELSE IF ~ok
        THEN RunRaises("search")
        ELSE /\ pc' = "paginate"
             /\ searched' = ok
             /\ permits' = <<>>
             /\ seen_hrefs' = {}
             /\ page_idx' = 0
             /\ ev' = [op |-> "search", ok |-> ok]
             /\ UNCHANGED <<store, history, pos, count, max_items, logged_in, visited,
                            retry, process>>

\* The search stage: the search page is loaded (page.goto is in no try), then the
\* query is filled in and submitted, any exception of which is caught and printed;
\* permits = [], seen_hrefs = set().
Search(outcomes) ==
    /\ pc = "search"
    /\ \E goto_ok \in BOOLEAN, ok \in outcomes :
        IF ~goto_ok
        THEN RunRaises("goto_search")
        ELSE /\ pc' = "paginate"
             /\ searched' = ok
             /\ permits' = <<>>
             /\ seen_hrefs' = {}
             /\ page_idx' = 0
             /\ ev' = [op |-> "search", ok |-> ok]
             /\ UNCHANGED <<store, history, pos, count, max_items, logged_in, visited,
                            retry, process>>

max_pages == 25

\* An anchor of a result page: whether reading it raises, its inner text, its href
\* attribute, and whether the results-table selector matches it.
Anchor(text, href) == [raises |-> FALSE, text |-> text, href |-> href, in_table |-> TRUE]

\* rows = query_selector_all(table selector) or query_selector_all('a')
result_rows(anchors) ==
    LET table == SelectSeq(anchors, LAMBDA a : a.in_table)
    IN  IF table # <<>> THEN table ELSE anchors

\* What the loop over the anchors of one page has done so far: the lists it builds,
\* the number of anchors it has looked at, the positions of those whose text or href
\* could not be read, and the number of those left out because their href was seen.
Collected(links, seen) ==
    [permits |-> links, seen_hrefs |-> seen, examined |-> 0, unreadable |-> <<>>,
     duplicates |-> 0]

\* The test `href not in seen_hrefs` is missing.
RECURSIVE collect_links_no_seen(_, _, _)
collect_links_no_seen(anchors, i, acc) ==
    IF i > Len(anchors) THEN acc
    ELSE
    LET a == anchors[i]
        text == strip(a.text)
        at == [acc EXCEPT !.examined = acc.examined + 1]
    IN  IF a.raises
        THEN collect_links_no_seen(anchors, i + 1, [at EXCEPT !.unreadable = Append(at.unreadable, i)])
        ELSE IF ~TruthyStr(a.href) \/ startswith(lower(strip(a.href[1])), "javascript:")
        THEN collect_links_no_seen(anchors, i + 1, at)
        ELSE IF text # <<>>
        THEN collect_links_no_seen(anchors, i + 1,
                 [at EXCEPT !.permits = Append(at.permits, Link(text, a.href[1])),
                            !.seen_hrefs = at.seen_hrefs \cup {a.href[1]}])
        ELSE collect_links_no_seen(anchors, i + 1, at)

\* An anchor that cannot be read ends the loop over the anchors: `break` for `continue`.
RECURSIVE collect_links_break(_, _, _)
collect_links_break(anchors, i, acc) ==
    IF i > Len(anchors) THEN acc
    ELSE
    LET a == anchors[i]
        text == strip(a.text)
        at == [acc EXCEPT !.examined = acc.examined + 1]
    IN  IF a.raises
        THEN [at EXCEPT !.unreadable = Append(at.unreadable, i)]
        ELSE IF ~TruthyStr(a.href) \/ startswith(lower(strip(a.href[1])), "javascript:")
        THEN collect_links_break(anchors, i + 1, at)
        ELSE IF text # <<>> /\ a.href[1] \notin at.seen_hrefs
        THEN collect_links_break(anchors, i + 1,
                 [at EXCEPT !.permits = Append(at.permits, Link(text, a.href[1])),
                            !.seen_hrefs = at.seen_hrefs \cup {a.href[1]}])
        ELSE IF text # <<>>
        THEN collect_links_break(anchors, i + 1, [at EXCEPT !.duplicates = at.duplicates + 1])
        ELSE collect_links_break(anchors, i + 1, at)

\* for a in rows: the links of one result page are added to permits and seen_hrefs.
RECURSIVE collect_links(_, _, _)
collect_links(anchors, i, acc) ==
    IF i > Len(anchors) THEN acc
    ELSE
    LET a == anchors[i]
        text == strip(a.text)
        at == [acc EXCEPT !.examined = acc.examined + 1]
    IN  IF a.raises
        THEN collect_links(anchors, i + 1, [at EXCEPT !.unreadable = Append(at.unreadable, i)])
        ELSE IF ~TruthyStr(a.href) \/ startswith(lower(strip(a.href[1])), "javascript:")
        THEN collect_links(anchors, i + 1, at)
        ELSE IF text # <<>> /\ a.href[1] \notin at.seen_hrefs
        THEN collect_links(anchors, i + 1,
                 [at EXCEPT !.permits = Append(at.permits, Link(text, a.href[1])),
                            !.seen_hrefs = at.seen_hrefs \cup {a.href[1]}])
        ELSE IF text # <<>>
        THEN collect_links(anchors, i + 1, [at EXCEPT !.duplicates = at.duplicates + 1])
        ELSE collect_links(anchors, i + 1, at)

\* The selectors of the next-page control, in the order they are tried.
NextSelectors ==
    <<"a[aria-label=\"Next\"]", "a:has-text(\"Next\")", "a:has-text(\"next\")",
      "a[title=\"Next\"]", "a.pager-next", "text=\"Next\"">>

\* The element a selector finds: its attributes aria-disabled and class, and what
\* clicking it does: "ok", "click_raises" (btn.click() raises), or "wait_raises" (the
\* click is made and page.wait_for_load_state raises).
NoControl == [present |-> FALSE, aria |-> None, class |-> None, click |-> "ok"]

Control(aria, class, click) ==
    [present |-> TRUE, aria |-> aria, class |-> class, click |-> click]

\* disabled = aria-disabled or class; the control is passed over when that text
\* contains 'disabled' (in lower case) or is 'true'.
seen_disabled(c) ==
    LET disabled == pyor(c.aria, c.class)
    IN  TruthyStr(disabled)
            /\ (contains(lower(disabled[1]), "disabled") \/ disabled[1] = <<"true">>)

\* for sel in [...]: from selector i on, with the clicks made so far
RECURSIVE click_next(_, _, _)
click_next(controls, i, clicks) ==
    IF i > Len(NextSelectors) THEN [next_clicked |-> FALSE, clicks |-> clicks]
    ELSE
    LET c == controls[i]
        clicked == Append(clicks, [sel |-> i, aria |-> c.aria, class |-> c.class])
    IN  IF ~c.present \/ seen_disabled(c) \/ c.click = "click_raises"
        THEN click_next(controls, i + 1, clicks)
        ELSE IF c.click = "wait_raises"
        THEN click_next(controls, i + 1, clicked)
        ELSE [next_clicked |-> TRUE, clicks |-> clicked]

\* The loop goes on while a next-page control was clicked, without a page limit.
pagination_ends_unbounded(pages_read, next_clicked) == ~next_clicked

\* The pagination loop ends after a page on which next_clicked stayed False, and
\* after max_pages pages.
pagination_ends(pages_read, next_clicked) == ~next_clicked \/ pages_read >= max_pages

\* A result page as the browser shows it: page.query_selector_all raises (it is in
\* no try), or the anchors and the controls of the page.
ResultPages(anchor_lists, control_lists) ==
    {[crashed |-> TRUE, anchors |-> <<>>, controls |-> [i \in DOMAIN NextSelectors |-> NoControl]]}
        \cup [crashed : {FALSE}, anchors : anchor_lists, controls : control_lists]

\* One pass of `for page_idx in range(max_pages)`: the links of the page are
\* collected and the next-page control is looked for; after the last pass count = 0
\* and the detail loop begins.
PaginatePage(result_pages) ==
    /\ pc = "paginate"
    /\ \E site \in result_pages :
        IF site.crashed
        THEN RunRaises("query_selector_all")
        ELSE
        LET anchors == result_rows(site.anchors)
            got == collect_links(anchors, 1, Collected(permits, seen_hrefs))
            next == click_next(site.controls, 1, <<>>)
            ends == pagination_ends(page_idx + 1, next.next_clicked)
        IN  /\ permits' = got.permits
            /\ seen_hrefs' = got.seen_hrefs
            /\ page_idx' = page_idx + 1
            /\ pc' = IF ends THEN "detail" ELSE "paginate"
            /\ pos' = IF ends THEN 1 ELSE pos
            /\ count' = IF ends THEN 0 ELSE count
            /\ visited' = <<>>
            /\ ev' = [op |-> "paginate", next_clicked |-> next.next_clicked,
                      clicks |-> next.clicks, left |-> Len(anchors) - got.examined,
                      unreadable |-> got.unreadable,
                      duplicates |-> got.duplicates]
            /\ UNCHANGED <<store, history, max_items, logged_in, searched, retry, process>>

----------------------------------------------------------------------------
(* thumbnails.py *)

\* The loop `for r in rows` of generate_recent_thumbnails from row i of the selected
\* rows on; fetch[n] is what fetch_streetview_thumbnail does for permit n. An exception
\* of the fetch leaves the function: the rows upserted before it stay.
RECURSIVE thumbnails_loop(_, _, _, _)
thumbnails_loop(sel, i, db, fetch) ==
    IF i > Len(sel) THEN [db |-> db, raised |-> FALSE]
    ELSE
    LET r == sel[i]
        fname == thumb_fname(r.permit_number)
    IN  IF ~(TruthyNum(r.lat) /\ TruthyNum(r.lon))
        THEN thumbnails_loop(sel, i + 1, db, fetch)
        ELSE IF TruthyStr(r.thumbnail_path) /\ r.thumbnail_path[1] \in db.files
        THEN thumbnails_loop(sel, i + 1, db, fetch)
        ELSE IF fetch[r.permit_number] = "raise"
        THEN [db |-> db, raised |-> TRUE]
        ELSE thumbnails_loop(sel, i + 1,
                 Upserted([db EXCEPT !.files = db.files \cup {fname}],
                          r.permit_number, r.address, r.lat, r.lon, PyStr(r.details_json),
                          r.scraped_at, Some(fname)),
                 fetch)

\* The store handles left open when an operation that opened `mine` ends: db.close()
\* is the last statement before the return, so an exception leaves the handle open.
\* The handle is then referenced by the dead frame only: where the exception ends
\* the process nothing stays open; where a caller catches it the handle stays open
\* until the runtime finalizes the connection (finalized).
LeftOpen(mine, raised) == IF raised THEN {mine} ELSE {}

HandlesAfter(mine, raised, finalized) ==
    IF ~raised THEN handles
    ELSE IF main.pc = "none" THEN {}
    ELSE IF finalized THEN handles
    ELSE handles \cup {mine}

\* generate_recent_thumbnails(limit); run_daily catches its exceptions (lines 40-43).
GenerateRecentThumbnails ==
    /\ pc = "idle"
    /\ Callable("generate_recent_thumbnails")
    /\ \E limit \in 1..MaxLimit :
       \E sel \in get_recent(rows, limit) :
       \E fetch \in [PermitNumbers -> {fetch_streetview_thumbnail(e) : e \in ImageryEnvs}] :
       \E finalized \in BOOLEAN :
        LET done == thumbnails_loop(sel, 1, Db, fetch)
        IN  /\ SetDb(done.db)
            /\ ev' = [op |-> "generate_recent_thumbnails", limit |-> limit,
                      raised |-> done.raised,
                      handles |-> handles \cup {"generate_recent_thumbnails"},
                      open |-> LeftOpen("generate_recent_thumbnails", done.raised)]
            /\ handles' = HandlesAfter("generate_recent_thumbnails", done.raised, finalized)
            /\ main' = Returned([main EXCEPT !.thumbnails =
                                    IF done.raised THEN "failed" ELSE "ok"],
                                "render_report")
    /\ UNCHANGED <<extracted, scrape, retry>>

----------------------------------------------------------------------------
(* generate_report.py *)

\* json.loads(rec['details_json']) if rec['details_json'] else {}
report_details(details_json) == loads(details_json)

\* render_report(for_date): the records handed to the template; loading the template
\* or writing the file may raise, which nothing in render_report or run_daily catches.
RenderReport ==
    /\ pc = "idle"
    /\ Callable("render_report")
    /\ \E for_date \in DateTimes, written_ok \in BOOLEAN :
       \E res \in get_since(rows, isoformat(for_date)) :
        /\ ev' = [op |-> "render_report", date |-> for_date.day,
                  records |-> [i \in DOMAIN res |->
                                  [permit_number |-> res[i].permit_number,
                                   details |-> report_details(res[i].details_json)]],
                  raised |-> ~written_ok,
                  handles |-> handles \cup {"render_report"},
                  open |-> LeftOpen("render_report", ~written_ok)]
        /\ handles' = IF written_ok THEN handles ELSE {}
        /\ main' = IF written_ok
                   THEN Returned([main EXCEPT !.rendered = TRUE], "send")
                   ELSE Propagated(main)
    /\ UNCHANGED <<store, history, scrape, retry>>

----------------------------------------------------------------------------
(* run_daily.py: main *)

\* python run_daily.py: a new process; line 29 calls run_scrape.
RunDaily ==
    /\ pc = "idle"
    /\ main.pc \in {"none", "done", "raised"}
    /\ main' = [NoMain EXCEPT !.pc = "run_scrape"]
    /\ handles' = {}
    /\ ev' = [op |-> "run_daily"]
    /\ UNCHANGED <<store, history, scrape, retry>>

\* Only Sunday ends main: yesterday.weekday() > 5.
DailyWeekday_sunday_only ==
    /\ main.pc = "weekday"
    /\ \E weekday \in 0..6, skip_thumbs \in BOOLEAN :
        /\ main' = IF weekday > 5 THEN [main EXCEPT !.pc = "done", !.weekday = Some(weekday)]
                   ELSE IF skip_thumbs
                   THEN [main EXCEPT !.pc = "render_report", !.weekday = Some(weekday),
                                     !.thumbnails = "skipped"]
                   ELSE [main EXCEPT !.pc = "generate_recent_thumbnails",
                                     !.weekday = Some(weekday)]
        /\ ev' = [op |-> "weekday", weekday |-> weekday,
                  skip_thumbs |-> weekday < 5 /\ skip_thumbs]
    /\ UNCHANGED <<store, history, scrape, retry, handles>>

\* Lines 32-45: yesterday.weekday() >= 5 ends main; otherwise SKIP_THUMBS decides
\* whether generate_recent_thumbnails is called.
DailyWeekday ==
    /\ main.pc = "weekday"
    /\ \E weekday \in 0..6, skip_thumbs \in BOOLEAN :
        /\ main' = IF weekday >= 5 THEN [main EXCEPT !.pc = "done", !.weekday = Some(weekday)]
                   ELSE IF skip_thumbs
                   THEN [main EXCEPT !.pc = "render_report", !.weekday = Some(weekday),
                                     !.thumbnails = "skipped"]
                   ELSE [main EXCEPT !.pc = "generate_recent_thumbnails",
                                     !.weekday = Some(weekday)]
        /\ ev' = [op |-> "weekday", weekday |-> weekday,
                  skip_thumbs |-> weekday < 5 /\ skip_thumbs]
    /\ UNCHANGED <<store, history, scrape, retry, handles>>

\* The command line and the environment as the sending step reads them.
SendSettings ==
    [use_addy : BOOLEAN, require_addy : BOOLEAN, addy_key : {None, Some(<<"cli-key">>)},
     force_smtp : BOOLEAN, ADDY_API_KEY : {None, Some(<<>>), Some(<<"env-key">>)},
     ADDY_ONLY : BOOLEAN, FORCE_SMTP : BOOLEAN, REQUIRE_ADDY : BOOLEAN]

\* The key of the send request is addy_key, the CLI key when one is given.
send_plan_cli_key(c) ==
    LET addy_key == pyor(c.addy_key, c.ADDY_API_KEY)
        use_addy == (c.ADDY_ONLY \/ c.use_addy \/ TruthyStr(addy_key))
                        /\ ~(c.force_smtp \/ c.FORCE_SMTP)
    IN  IF (c.require_addy \/ c.REQUIRE_ADDY) /\ (~use_addy \/ ~TruthyStr(addy_key))
        THEN [via |-> "SystemExit", key |-> None]
        ELSE IF use_addy THEN [via |-> "addy", key |-> addy_key]
        ELSE [via |-> "smtp", key |-> None]

\* Lines 52-79: how the report is sent, and the api_key given to send_via_addy.
send_plan(c) ==
    LET addy_key == pyor(c.addy_key, c.ADDY_API_KEY)
        use_addy == (c.ADDY_ONLY \/ c.use_addy \/ TruthyStr(addy_key))
                        /\ ~(c.force_smtp \/ c.FORCE_SMTP)
    IN  IF (c.require_addy \/ c.REQUIRE_ADDY) /\ (~use_addy \/ ~TruthyStr(addy_key))
        THEN [via |-> "SystemExit", key |-> None]
        ELSE IF use_addy THEN [via |-> "addy", key |-> c.ADDY_API_KEY]
        ELSE [via |-> "smtp", key |-> None]

\* Lines 50-81: the report is sent; an exception of the sending is caught and printed,
\* SystemExit of the require-addy test ends main.
DailySend ==
    /\ main.pc = "send"
    /\ \E c \in SendSettings, delivered \in BOOLEAN :
        LET plan == send_plan(c)
        IN  /\ main' = IF plan.via = "SystemExit" THEN [main EXCEPT !.pc = "raised"]
                       ELSE [main EXCEPT !.pc = "done", !.sent = TRUE]
            /\ ev' = [op |-> "send", via |-> plan.via, key |-> plan.key,
                      addy_key |-> c.addy_key, ADDY_API_KEY |-> c.ADDY_API_KEY,
                      delivered |-> plan.via # "SystemExit" /\ delivered]
    /\ UNCHANGED <<store, history, scrape, retry, handles>>

----------------------------------------------------------------------------
(* Direct calls of the store's API, as tests/test_db.py and db.py's main make them *)

\* The coordinates and thumbnail paths of the calls: none, coordinates without a
\* thumbnail, coordinates with a thumbnail.
Coordinates ==
    {[lat |-> None, lon |-> None, thumbnail_path |-> None],
     [lat |-> Some(39), lon |-> Some(-104), thumbnail_path |-> None],
     [lat |-> Some(39), lon |-> Some(-104), thumbnail_path |-> Some(<<"thumbs", "T", ".jpg">>)]}

\* The details dict of a record whose extracted address is `address`.
DetailsOf(address) ==
    [permit_number |-> None, address |-> address, owner |-> None,
     raw_text |-> <<"body">>]

\* db.upsert_permit(...) called directly
CallUpsertPermit ==
    \E permit_number \in PermitNumbers, address \in {None} \cup {Some(a) : a \in Addresses},
       c \in Coordinates, scraped_at \in Timestamps :
        /\ SetDb(Upserted(Db, permit_number, address, c.lat, c.lon, PyDict(DetailsOf(address)),
                          scraped_at, c.thumbnail_path))
        /\ ev' = [op |-> "upsert_permit", permit_number |-> permit_number,
                  conflict |-> HasPermit(rows, permit_number),
                  old_thumbnail |-> IF HasPermit(rows, permit_number)
                                    THEN RowOf(rows, permit_number).thumbnail_path
                                    ELSE None]
        /\ UNCHANGED <<extracted, scrape, retry, process>>

\* db.get_recent(limit) called directly
CallGetRecent ==
    \E limit \in 0..MaxLimit :
    \E result \in get_recent(rows, limit) :
        /\ ev' = [op |-> "get_recent", limit |-> limit, result |-> result]
        /\ UNCHANGED <<store, history, scrape, retry, process>>

\* db.get_since(since_date) called directly
CallGetSince ==
    \E since_date \in Timestamps :
    \E result \in get_since(rows, since_date) :
        /\ ev' = [op |-> "get_since", since_date |-> since_date, result |-> result]
        /\ UNCHANGED <<store, history, scrape, retry, process>>

----------------------------------------------------------------------------
(* Specifications *)

Init ==
    /\ rows = <<>>
    /\ files = {}
    /\ ev = [op |-> "init"]
    /\ written = [n \in PermitNumbers |-> NoWrite]
    /\ inserted = {}
    /\ extracted = [n \in PermitNumbers |-> None]
    /\ pc = "idle"
    /\ permits = <<>>
    /\ pos = 0
    /\ count = 0
    /\ max_items = 0
    /\ logged_in = FALSE
    /\ searched = FALSE
    /\ page_idx = 0
    /\ seen_hrefs = {}
    /\ visited = <<>>
    /\ retry = NoFrame
    /\ handles = {}
    /\ main = NoMain

NextStore == CallUpsertPermit \/ CallGetRecent \/ CallGetSince

SpecStore == Init /\ [][NextStore]_vars

\* Calls of the functions wrapped by retry_backoff, with every sequence of outcomes
\* of the wrapped function.
NextRetry == RetryCall \/ RetryAttempt

SpecRetry == Init /\ [][NextRetry]_vars

\* Calls of the imagery fetcher, with every behaviour of the two imagery services.
NextImagery == CallFetchStreetview

SpecImagery == Init /\ [][NextImagery]_vars

\* fetch_satellite_thumbnail called once on arguments drawn at the start: every
\* number of tiles up to MaxTiles with tile requests that all end the same way, and
\* the default grid with every combination of outcomes of its tile requests.
MaxTiles == 4

TilePoints == {<<39, -104>>, <<0, 0>>, <<0, -180>>}

TileSizes == {default_tilesize, 1, 2}

CropSizes ==
    {default_size, <<200, 150>>, <<1, 1>>, <<2, 3>>, <<3, 2>>, <<257, 256>>, <<768, 769>>,
     <<1025, 1024>>, <<1500, 300>>}

Uniform(tiles, o) == [k \in 1..TileCount(tiles) |-> o]

GridCalls ==
    {SatelliteCall(p[1], p[2], <<"thumbs", "B", ".jpg">>, size, tiles, tilesize,
                   Uniform(tiles, o), save_ok) :
        p \in TilePoints, size \in CropSizes, tiles \in 1..MaxTiles,
        tilesize \in TileSizes, o \in TileOutcomes, save_ok \in BOOLEAN}

FailureCalls ==
    {SatelliteCall(39, -104, <<"thumbs", "B", ".jpg">>, default_size, default_tiles,
                   default_tilesize, outcomes, TRUE) :
        outcomes \in [1..TileCount(default_tiles) -> TileOutcomes]}

\* The state after construction with a call of a function about to be made.
InitCall(calls) ==
    /\ rows = <<>>
    /\ files = {}
    /\ ev \in calls
    /\ written = [n \in PermitNumbers |-> NoWrite]
    /\ inserted = {}
    /\ extracted = [n \in PermitNumbers |-> None]
    /\ pc = "idle"
    /\ permits = <<>>
    /\ pos = 0
    /\ count = 0
    /\ max_items = 0
    /\ logged_in = FALSE
    /\ searched = FALSE
    /\ page_idx = 0
    /\ seen_hrefs = {}
    /\ visited = <<>>
    /\ retry = NoFrame
    /\ handles = {}
    /\ main = NoMain

InitTiles == InitCall(GridCalls \cup FailureCalls)

NextTiles == FetchSatelliteThumbnail

\* The thumbnail paths of two items of a run, for permit numbers made of letters,
\* digits, slashes and underscores.
NumberPieces == {"A", "1", "/", "_"}

ThumbNumbers ==
    {<<a>> : a \in NumberPieces} \cup {<<a, b>> : a, b \in NumberPieces}
        \cup {<<a, b, c>> : a, b, c \in NumberPieces}

InitThumbs ==
    InitCall({[op |-> "items", first |-> m, second |-> n] : m, n \in ThumbNumbers})

NextThumbs == ThumbnailPaths

SpecThumbs == InitThumbs /\ [][NextThumbs]_vars

SpecTiles == InitTiles /\ [][NextTiles]_vars

\* run_scrape alone, on links that all lead to the pages of one permit, with every
\* kind of detail page and of geocoder answer.
A1 == <<"A", "/", "1">>

ScrapeLinks == {Link(A1, <<"/cap/1">>), Link(A1, <<"/cap/1", "?tab=2">>)}

ScrapePages ==
    Pages({A1}, {A1}, {None, Some(<<>>)} \cup {Some(a) : a \in Addresses},
          {<<>>, <<<<0, 5>>>>, <<<<4, 5>>, <<0, 5>>>>})

ScrapeClock == {dt \in DateTimes : dt.day = 1 /\ dt.micro = 0}

ScrapeStart == StartScrape(ScrapeLinks)

ScrapeVisit == VisitItem(ScrapePages, ScrapeClock)

NextScrape == ScrapeStart \/ ScrapeVisit \/ FinishScrape

SpecScrape == Init /\ [][NextScrape]_vars

\* run_scrape from its call to its end, on result pages with repeated, script and
\* missing hrefs and a next-page control that is absent, enabled, disabled or fails.
SessionCaps == {MaxItems}

SessionPages == Pages({}, {}, {None}, {<<>>})

SessionVisit == VisitItem(SessionPages, ScrapeClock)

EasyLogin == {[a_click |-> TRUE, b_ok |-> FALSE, frames |-> <<>>]}

PaginateAnchors ==
    {Anchor(A1, Some(<<"/cap/1">>)),
     Anchor(<<"B">>, Some(<<"/cap/1">>)),
     Anchor(<<"B">>, Some(<<"/cap/2">>)),
     Anchor(<<"B">>, Some(<<" ", "JavaScript:", "void(0)">>)),
     Anchor(<<"B">>, None)}

AnchorLists(anchors) ==
    {<<>>} \cup {<<a>> : a \in anchors} \cup {<<a, b>> : a, b \in anchors}

\* The controls of a page on which only the selectors in `sels` find an element.
ControlLists(sels, controls) ==
    {[i \in DOMAIN NextSelectors |-> IF i \in sels THEN f[i] ELSE NoControl] :
        f \in [sels -> controls \cup {NoControl}]}

PaginateControls ==
    ControlLists({1}, {Control(None, None, "ok"), Control(Some(<<"true">>), None, "ok"),
                       Control(None, None, "wait_raises")})

PaginateBegin == BeginScrape(SessionCaps)

PaginateLogin == Login(EasyLogin)

PaginateSearch == Search({TRUE})

PaginateSites == ResultPages(AnchorLists(PaginateAnchors), PaginateControls)

PaginateResults == PaginatePage(PaginateSites)

NextPaginate ==
    \/ PaginateBegin
    \/ PaginateLogin
    \/ PaginateSearch
    \/ PaginateResults
    \/ SessionVisit
    \/ FinishScrape

SpecPaginate == Init /\ [][NextPaginate]_vars

\* run_scrape with every outcome of the login strategies and of the search.
SessionLogin == Login(LoginPages(FrameLists))

SessionSearch == Search(BOOLEAN)

SessionSites ==
    ResultPages({<<Anchor(A1, Some(<<"/cap/1">>))>>},
                ControlLists({1}, {Control(None, None, "ok")}))

SessionResults == PaginatePage(SessionSites)

NextSession ==
    \/ PaginateBegin
    \/ SessionLogin
    \/ SessionSearch
    \/ SessionResults
    \/ SessionVisit
    \/ FinishScrape

SpecSession == Init /\ [][NextSession]_vars

\* run_scrape on result pages whose next-page controls carry every combination of
\* aria-disabled and class, under the first and the fifth selector.
NextControls ==
    {Control(aria, class, click) :
        aria \in {None, Some(<<"true">>), Some(<<"false">>)},
        class \in {None, Some(<<"pager-next">>), Some(<<"pager-next", " ", "disabled">>)},
        click \in {"ok", "wait_raises"}}
      \cup {Control(None, None, "click_raises")}

ControlsSites ==
    ResultPages({<<Anchor(A1, Some(<<"/cap/1">>))>>}, ControlLists({1, 5}, NextControls))

ControlsResults == PaginatePage(ControlsSites)

NextControlsStep ==
    \/ PaginateBegin
    \/ PaginateLogin
    \/ PaginateSearch
    \/ ControlsResults
    \/ SessionVisit
    \/ FinishScrape

SpecControls == Init /\ [][NextControlsStep]_vars

\* run_scrape on one result page, without a next-page control, whose anchors cannot
\* be read, have no href, an empty or blank href, a script href, or an empty, blank or
\* padded text.
Unreadable == [raises |-> TRUE, text |-> <<>>, href |-> None, in_table |-> TRUE]

LinksAnchors ==
    {Anchor(A1, Some(<<"/cap/1">>)),
     Unreadable,
     Anchor(<<"B">>, None),
     Anchor(<<"B">>, Some(<<>>)),
     Anchor(<<"B">>, Some(<<" ">>)),
     Anchor(<<"B">>, Some(<<" ", "JavaScript:", "void(0)">>)),
     Anchor(<<>>, Some(<<"/cap/2">>)),
     Anchor(<<" ">>, Some(<<"/cap/2">>)),
     Anchor(<<" ", "B", " ">>, Some(<<"/cap/2">>))}

LinksSites ==
    ResultPages(AnchorLists(LinksAnchors), ControlLists({}, {}))

LinksResults == PaginatePage(LinksSites)

NextLinks ==
    \/ PaginateBegin
    \/ PaginateLogin
    \/ PaginateSearch
    \/ LinksResults
    \/ SessionVisit
    \/ FinishScrape

SpecLinks == Init /\ [][NextLinks]_vars

\* The daily pipeline: run_scrape, generate_recent_thumbnails and render_report, one
\* after the other in any order, on the pages of two permits.
PipelineLinks == {Link(A1, <<"/cap/1">>), Link(<<"B">>, <<"/cap/2">>)}

PipelinePages == Pages(PermitNumbers, {}, {None}, {<<>>, <<<<4, 5>>>>})

PipelineStart == StartScrape(PipelineLinks)

PipelineVisit == VisitItem(PipelinePages, ScrapeClock)

Next ==
    \/ PipelineStart
    \/ PipelineVisit
    \/ FinishScrape
    \/ GenerateRecentThumbnails
    \/ RenderReport

Spec == Init /\ [][Next]_vars

\* The detail loop on links with different texts and detail pages on which each of
\* the two permit-number selectors finds nothing, an empty text or a number.
NumberPages == Pages(PermitNumbers, PermitNumbers \cup {<<>>}, {None}, {<<>>})

NumberVisit == VisitItem(NumberPages, ScrapeClock)

NextNumbers == PipelineStart \/ NumberVisit \/ FinishScrape

SpecNumbers == Init /\ [][NextNumbers]_vars

\* python run_daily.py, run after run: run_scrape on one result page with one link,
\* then the weekday test, the thumbnails, the report and the sending.
DailySites == ResultPages({<<Anchor(A1, Some(<<"/cap/1">>))>>}, ControlLists({}, {}))

DailyResults == PaginatePage(DailySites)

DailyPages == Pages({}, {}, {None}, {<<>>, <<<<4, 5>>>>})

DailyVisit == VisitItem(DailyPages, ScrapeClock)

NextDaily ==
    \/ RunDaily
    \/ PaginateBegin
    \/ PaginateLogin
    \/ PaginateSearch
    \/ DailyResults
    \/ DailyVisit
    \/ FinishScrape
    \/ DailyWeekday
    \/ GenerateRecentThumbnails
    \/ RenderReport
    \/ DailySend

SpecDaily == Init /\ [][NextDaily]_vars

----------------------------------------------------------------------------
(* Claims about the record store *)

Range(s) == {s[i] : i \in DOMAIN s}

\* C1: after any sequence of upsert_permit calls the table holds exactly one row per
\* distinct permit_number ever upserted: no permit_number occurs in two rows, and the
\* number of rows equals the number of distinct permit_numbers written.
C1_OneRowPerPermitNumber ==
    /\ \A i, j \in DOMAIN rows : rows[i].permit_number = rows[j].permit_number => i = j
    /\ StoredNumbers(rows) = inserted
    /\ Len(rows) = Cardinality(inserted)

\* An upsert of a permit_number that was already stored has acted.
C1_Witness ==
    /\ ev.op = "upsert_permit"
    /\ ev.conflict
    /\ Len(rows) = 2

\* C2: last write wins, with full replacement: the row of permit_number k holds the
\* address, lat, lon, details, thumbnail_path and scraped_at of the latest upsert for k
\* (details read back through json.loads), a None argument included.
C2_LastWriteWins ==
    \A k \in PermitNumbers :
        written[k].permit # None =>
            /\ HasPermit(rows, k)
            /\ LET r == RowOf(rows, k)
                   w == written[k]
               IN  /\ r.address = w.address
                   /\ r.lat = w.lat
                   /\ r.lon = w.lon
                   /\ loads(r.details_json) = w.details
                   /\ r.thumbnail_path = w.thumbnail_path
                   /\ r.scraped_at = w.scraped_at

\* An upsert with thumbnail_path = None has replaced a row that had a thumbnail path.
C2_Witness ==
    /\ ev.op = "upsert_permit"
    /\ ev.conflict
    /\ ev.old_thumbnail # None
    /\ RowOf(rows, ev.permit_number).thumbnail_path = None

\* C4: get_recent(limit) returns at most limit rows, in non-increasing scraped_at
\* order, and every row it omits has a scraped_at less than or equal to that of every
\* row it returns.
C4_GetRecentNewestFirst ==
    ev.op = "get_recent" =>
        LET res == ev.result
        IN  /\ Len(res) <= ev.limit
            /\ \A i, j \in DOMAIN res :
                   i < j => TextLeq(res[j].scraped_at, res[i].scraped_at)
            /\ \A o \in Range(rows) \ Range(res) :
                   \A r \in Range(res) : TextLeq(o.scraped_at, r.scraped_at)

\* get_recent(1) has returned one of two stored rows and omitted a strictly older one.
C4_Witness ==
    /\ ev.op = "get_recent"
    /\ ev.limit = 1
    /\ Len(ev.result) = 1
    /\ \E o \in Range(rows) : ~TextLeq(ev.result[1].scraped_at, o.scraped_at)

\* C5: get_since(d) returns exactly the stored rows whose scraped_at falls on the
\* calendar date of d, each once, in non-decreasing scraped_at order.
C5_GetSinceExactDate ==
    ev.op = "get_since" =>
        LET res == ev.result
        IN  /\ Range(res) = {r \in Range(rows) : date(r.scraped_at) = date(ev.since_date)}
            /\ Len(res) = Cardinality(Range(res))
            /\ \A i, j \in DOMAIN res :
                   i < j => TextLeq(res[i].scraped_at, res[j].scraped_at)

\* get_since has returned two rows of the asked date, at different times of that day,
\* none of them at the time of day of the argument.
C5_Witness ==
    /\ ev.op = "get_since"
    /\ Len(ev.result) = 2
    /\ ev.result[1].scraped_at # ev.result[2].scraped_at
    /\ ev.result[2].scraped_at # ev.since_date

----------------------------------------------------------------------------
(* Claims about the pipeline *)

\* C3: no operation ever deletes a record: in every step of run_scrape,
\* generate_recent_thumbnails and render_report (with the upsert_permit, get_recent and
\* get_since calls they make) the set of stored permit_numbers does not shrink.
C3_NeverDeleted == [][StoredNumbers(rows) \subseteq StoredNumbers(rows')]_vars

\* generate_recent_thumbnails has rewritten a row while another permit was stored.
C3_Witness ==
    /\ ev.op = "generate_recent_thumbnails"
    /\ Len(rows) = 2
    /\ \E i \in DOMAIN rows : rows[i].details_json.quoted > 0

\* C6: details round-trips: for every stored record, after any sequence of writes by
\* run_scrape and generate_recent_thumbnails, deserializing the stored details blob once,
\* as render_report does, yields the dict the scrape last extracted for that permit.
C6_DetailsRoundTrip ==
    \A i \in DOMAIN rows :
        extracted[rows[i].permit_number] # None =>
            report_details(rows[i].details_json)
                = PyDict(extracted[rows[i].permit_number][1])

----------------------------------------------------------------------------
(* Claims about the coordinates of an item of run_scrape *)

Visited == ev.op = "visit_item"

\* C7: every record written by run_scrape has lat and lon both present or both
\* absent, whichever of the page and the geocoder produced them.
C7_LatLonTogether ==
    /\ \A i \in DOMAIN rows : (rows[i].lat = None) <=> (rows[i].lon = None)
    /\ Visited /\ ev.stored => ((ev.lat = None) <=> (ev.lon = None))

\* An item was stored whose page gave a pair, for which the geocoder was asked
\* nevertheless and had no candidate.
C7_Witness ==
    /\ Visited
    /\ ev.stored
    /\ ev.pair # None
    /\ ev.geo = "empty"
    /\ ev.lat = None

\* C8: whenever the page text contains a well-formed pair, the geocoder is not invoked
\* for the item and the coordinates stored are that first pair, for every value of the
\* pair and with or without an address.
C8_PagePairWins ==
    Visited /\ ev.stored /\ ev.pair # None =>
        /\ ev.geo = "not_called"
        /\ ev.lat = Some(ev.pair[1][1])
        /\ ev.lon = Some(ev.pair[1][2])

\* C9: when the page text contains no pair and an address was extracted, the stored
\* coordinates are the geocoder's first candidate; when the geocoder has no candidate
\* or answers with another status than 200, or when no address was extracted, the item
\* is stored with lat and lon both absent.
C9_GeocoderFallback ==
    Visited /\ ev.stored /\ ev.pair = None =>
        /\ ev.address # None => ev.geo \in {"candidate", "empty", "non200"}
        /\ ev.geo = "candidate" =>
               ev.lat = Some(ev.first[1][1]) /\ ev.lon = Some(ev.first[1][2])
        /\ ev.geo \in {"empty", "non200"} \/ ev.address = None =>
               ev.lat = None /\ ev.lon = None

\* An item without a pair on its page was stored with the first of two candidates of
\* the geocoder.
C9_Witness ==
    /\ Visited
    /\ ev.stored
    /\ ev.pair = None
    /\ ev.address # None
    /\ ev.geo = "candidate"
    /\ ev.first = Some(<<0, 0>>)
    /\ RowOf(rows, ev.permit_number[1]).lat = Some(0)

\* C10: an item whose geocoding call fails on every retry attempt is still upserted,
\* with lat and lon absent and no thumbnail.
C10_GeocodeFailureStored ==
    Visited /\ ev.geo = "raised" =>
        /\ ev.stored
        /\ ev.lat = None
        /\ ev.lon = None
        /\ ev.thumbnail_path = None

----------------------------------------------------------------------------
(* Claims about the retry wrapper *)

\* The waits of retry_backoff(max_attempts=4, initial_delay=0.5, factor=2.0), in tenths.
Waits == <<5, 10, 20>>

\* C13: a function wrapped by retry_backoff(max_attempts=4, initial_delay=0.5,
\* factor=2.0) is called at most 4 times per call of the wrapper; the wrapper returns
\* the result of the first attempt that does not raise and makes no further attempt;
\* if all 4 attempts raise, the 4th exception propagates; the waits before the 2nd,
\* 3rd and 4th attempts are 0.5, 1.0 and 2.0, and no wait follows the final failure.
C13_BoundedRetry ==
    /\ [](/\ retry.calls <= 4
          /\ retry.status = "returned" =>
                 /\ retry.result = Some("result")
                 /\ retry.calls = Len(retry.errors) + 1
          /\ Len(retry.errors) = 4 =>
                 /\ retry.status = "raised"
                 /\ retry.calls = 4
                 /\ retry.error = Some(retry.errors[4])
          /\ Len(retry.sleeps) = Min(Len(retry.errors), 3)
          /\ retry.sleeps = SubSeq(Waits, 1, Len(retry.sleeps))
          /\ retry.status \in {"returned", "raised"} /\ retry.error # Some("KeyboardInterrupt") =>
                 LET r == retry_backoff(max_attempts, Len(retry.errors), retry.result)
                 IN  /\ r.raised = (retry.status = "raised")
                     /\ r.calls = retry.calls)
    /\ [][retry.status \in {"returned", "raised"} =>
              retry' = retry \/ retry'.calls = 0]_vars

\* Four attempts have raised, with different exceptions, and the last one has
\* propagated after three waits.
C13_Witness ==
    /\ retry.status = "raised"
    /\ retry.fn = "geocode_address"
    /\ Len(retry.errors) = 4
    /\ retry.errors[3] # retry.errors[4]
    /\ retry.error = Some(retry.errors[4])
    /\ retry.sleeps = <<5, 10, 20>>

----------------------------------------------------------------------------
(* Claims about the imagery fetcher *)

Fetched == ev.op = "fetch_streetview_thumbnail"

\* The call of fetch_satellite_thumbnail that the claim C11 describes.
SameArguments(c) ==
    /\ c.lat = ev.lat
    /\ c.lon = ev.lon
    /\ c.outpath = ev.outpath
    /\ c.size = ev.size

\* C11 as stated: whenever the street-level request raises, returns a non-200 status,
\* or no API key is configured, fetch_satellite_thumbnail is invoked with the same
\* coordinates, output path and size and its returned path is the result; when the
\* street-level request returns 200, the satellite fetch is not invoked.
C11_ImageryFallback ==
    Fetched =>
        /\ ev.street \in {"raise", "non200", "not_requested"} =>
               /\ Len(ev.satellite) = 1
               /\ SameArguments(ev.satellite[1])
               /\ ev.raised = ev.satellite[1].raised
               /\ ev.path = ev.satellite[1].path
        /\ ev.street = "200" => ev.satellite = <<>>

\* C11 amended: as stated, except that the satellite fetch is not invoked when the
\* street-level request returns 200 and its body is written to the output path
\* without an exception; when writing the body raises, the satellite fetch is invoked
\* as for a request that raised.
C11_ImageryFallbackAmended ==
    Fetched =>
        /\ ev.street \in {"raise", "non200", "not_requested"} \/ ~ev.written =>
               /\ Len(ev.satellite) = 1
               /\ SameArguments(ev.satellite[1])
               /\ ev.raised = ev.satellite[1].raised
               /\ ev.path = ev.satellite[1].path
        /\ ev.street = "200" /\ ev.written =>
               /\ ev.satellite = <<>>
               /\ ~ev.raised
               /\ ev.path = Some(ev.outpath)

\* The street-level request answered a non-200 status for a size that is not the
\* default, and the satellite thumbnail was returned.
C11_Witness ==
    /\ Fetched
    /\ ev.street = "non200"
    /\ ev.size # default_size
    /\ Len(ev.satellite) = 1
    /\ ev.path = Some(ev.outpath)

----------------------------------------------------------------------------
(* Claims about the thumbnail of an item of run_scrape *)

\* The coordinates resolved for the visited item: the geocoder's first candidate when
\* it was asked and had one, else the pair of the page.
Resolved == IF ev.geo = "candidate" THEN ev.first ELSE ev.pair

\* C12: for an item with coordinates, if every imagery strategy raises (the
\* street-level fetch with its own fallback, then the last-resort satellite fetch),
\* the item is still upserted with its coordinates and with thumbnail_path absent,
\* and count goes up by one; only a failing store write keeps it from being stored.
C12_ThumbnailFailureStored ==
    [][(Visited /\ ev.imagery = "raise" /\ ev.why # "upsert")' =>
          /\ ev'.stored
          /\ count' = count + 1
          /\ LET r == RowOf(rows', ev'.permit_number[1])
             IN  /\ r.lat = Some(Resolved'[1][1])
                 /\ r.lon = Some(Resolved'[1][2])
                 /\ r.thumbnail_path = None]_vars

\* An item with the coordinates of its page was stored after both the street-level
\* fetch and the last-resort satellite fetch had raised.
C12_Witness ==
    /\ Visited
    /\ ev.stored
    /\ ev.imagery = "raise"
    /\ ev.lat = Some(4)
    /\ ev.thumbnail_path = None
    /\ count = 1

\* C20: for every item whose coordinates were resolved (lat and lon both present,
\* whatever their values) the imagery fetcher is invoked; for every item without
\* coordinates it is never invoked and the record is stored with thumbnail_path absent.
C20_ImageryIffCoordinates ==
    Visited /\ ev.stored =>
        /\ (ev.lat # None /\ ev.lon # None) <=> ev.imagery # "not_invoked"
        /\ ev.lat = None \/ ev.lon = None => ev.thumbnail_path = None

----------------------------------------------------------------------------
(* Claims about the detail loop of run_scrape *)

\* C17: an exception raised while processing one permit link causes only that item to
\* be skipped: the step leaves every stored record as it was and the loop at the next
\* link with count unchanged; and when the loop has ended, either every link was
\* visited or count had reached max_items.
C17_PerItemIsolation ==
    /\ [][(Visited /\ ~ev.stored)' =>
              /\ rows' = rows
              /\ pc' = "detail"
              /\ permits' = permits
              /\ pos' = pos + 1
              /\ count' = count
              /\ max_items' = max_items]_vars
    /\ [](ev.op = "run_scrape_done" =>
              ev.visited = ev.links \/ ev.count = ev.max_items)

\* The first link of a run failed and the second one was stored.
C17_Witness ==
    /\ Visited
    /\ ev.stored
    /\ Len(visited) = 2
    /\ ~visited[1].stored
    /\ count = 1

\* C19: in one run of run_scrape(max_items) the number of upserts performed never
\* exceeds max_items, and count equals the number of items whose upsert completed,
\* during the loop (where it is printed after every item) and at its end.
C19_ItemCapAndCount ==
    /\ pc = "detail" =>
           /\ Upserts(visited) <= max_items
           /\ count = Upserts(visited)
    /\ ev.op = "run_scrape_done" =>
           /\ ev.upserts <= ev.max_items
           /\ ev.count = ev.upserts

\* A run with max_items = 1 has stored its first link and left the second unvisited.
C19_Witness ==
    /\ ev.op = "run_scrape_done"
    /\ ev.max_items = 1
    /\ ev.count = 1
    /\ ev.links = 2
    /\ ev.visited = 1

----------------------------------------------------------------------------
(* Claims about the stages of run_scrape before the detail loop *)

\* C14: at every point of the pagination loop, and after it, the collected
\* permit-link list contains no two entries with the same href, even when an href is
\* repeated on one page or on different pages; and no href is visited twice in the
\* detail loop.
C14_LinkDeduplication ==
    /\ \A i, j \in DOMAIN permits : permits[i].href = permits[j].href => i = j
    /\ pc = "paginate" => seen_hrefs = {permits[i].href : i \in DOMAIN permits}
    /\ \A i, j \in DOMAIN visited : visited[i].href = visited[j].href => i = j

\* The second result page showed twice an href that the first page had shown.
C14_Witness ==
    /\ ev.op = "paginate"
    /\ page_idx = 2
    /\ ev.duplicates = 2
    /\ Len(permits) = 1

\* A control that is marked disabled: aria-disabled="true", or the class disabled.
MarkedDisabled(c) ==
    \/ c.aria = Some(<<"true">>)
    \/ c.class # None /\ contains(c.class[1], "disabled")

\* C15: during pagination a next-page control that is marked disabled, by its
\* aria-disabled attribute or by a disabled class, is never clicked, for every
\* combination of aria-disabled and class values.
C15_DisabledNeverClicked ==
    ev.op = "paginate" => \A i \in DOMAIN ev.clicks : ~MarkedDisabled(ev.clicks[i])

\* C16: whatever the site returns, the pagination loop reads at most 25 result pages,
\* and it stops at the first page on which no next-page control was successfully
\* clicked: it goes on to another page only after next_clicked = True.
C16_PaginationTerminates ==
    /\ [](page_idx <= 25)
    /\ [][pc = "paginate" /\ ev'.op = "paginate" =>
              /\ page_idx' = page_idx + 1
              /\ ~ev'.next_clicked => pc' = "detail"
              /\ pc' = "paginate" => ev'.next_clicked]_vars

\* The next-page control was clicked on each of 25 pages, and the loop has ended.
C16_Witness ==
    /\ ev.op = "paginate"
    /\ ev.next_clicked
    /\ page_idx = 25
    /\ pc = "detail"

\* C18: for every outcome of the login strategies and of the search step, run_scrape
\* goes from the login stage to the search stage, from the search attempt to the
\* pagination loop and from there to the detail loop; no failure of a login strategy
\* or of the search ends the run (only a page that does not load does), and no stage
\* is entered from another stage than the one before it.
C18_StagesInOrder ==
    [][/\ pc = "login" => pc' = "search"
       /\ pc = "search" /\ ev'.op = "search" => pc' = "paginate"
       /\ pc = "search" /\ ev'.op # "search" =>
              ev'.op = "run_scrape_raised" /\ ev'.at = "goto_search"
       /\ pc' = "search" => pc = "login"
       /\ pc' = "paginate" => pc \in {"search", "paginate"}
       /\ pc' = "detail" => pc \in {"paginate", "detail"}
       /\ ev'.op = "run_scrape_done" => pc = "detail"]_vars

\* An item was visited in a run in which no login strategy succeeded and the search
\* raised.
C18_Witness ==
    /\ pc = "detail"
    /\ ~logged_in
    /\ ~searched
    /\ Visited
    /\ Len(visited) = 1

\* C21: no entry of the collected permit-link list has a missing or empty href, an
\* href that after trimming and in lower case starts with 'javascript:', or an empty
\* link text; and an anchor whose text or href cannot be read is passed over while the
\* anchors after it on the page are still looked at.
C21_LinkFiltering ==
    /\ \A i \in DOMAIN permits :
        /\ permits[i].href # <<>>
        /\ ~startswith(lower(strip(permits[i].href)), "javascript:")
        /\ permits[i].text # <<>>
        /\ strip(permits[i].text) = permits[i].text
    /\ ev.op = "paginate" => ev.left = 0

\* The first anchor of a page could not be read and the link of the second one, whose
\* text was padded with blanks, was collected.
C21_Witness ==
    /\ ev.op = "paginate"
    /\ page_idx = 1
    /\ ev.unreadable = <<1>>
    /\ permits = <<Link(<<"B">>, <<"/cap/2">>)>>


----------------------------------------------------------------------------
(* Claims about the satellite thumbnail *)

Stitched == ev.op = "fetch_satellite_thumbnail"

\* The positions (tx, ty) of the tile requests of the call in ev.
Positions == {<<ev.requests[k].tx, ev.requests[k].ty>> : k \in DOMAIN ev.requests}

\* C22: for every tiles >= 1, odd or even, fetch_satellite_thumbnail requests exactly
\* tiles x tiles tiles, at distinct adjacent positions that form a square around the
\* tile of (lat, lon), and pastes every tile at an offset inside the canvas of side
\* tiles * tilesize.
C22_TileGrid ==
    Stitched =>
        /\ Len(ev.requests) = ev.tiles * ev.tiles
        /\ Cardinality(Positions) = Len(ev.requests)
        /\ \E x0 \in (ev.center[1] - ev.tiles)..ev.center[1],
              y0 \in (ev.center[2] - ev.tiles)..ev.center[2] :
                Positions = (x0..(x0 + ev.tiles - 1)) \X (y0..(y0 + ev.tiles - 1))
        /\ ev.center \in Positions
        /\ \A k \in DOMAIN ev.pasted :
            /\ ev.pasted[k].px \in 0..(ev.canvas_size - 1)
            /\ ev.pasted[k].py \in 0..(ev.canvas_size - 1)

\* C23: for every requested size (w, h) and every canvas size the crop box has width
\* exactly w and height exactly h and an origin with left >= 0 and top >= 0, and the
\* cropped image has that size; when w and h do not exceed the canvas side the box
\* lies inside the canvas and its margins on opposite sides differ by at most one
\* pixel.
C23_CropWindow ==
    Stitched =>
        LET w == ev.size[1]
            h == ev.size[2]
            left == ev.box[1]
            top == ev.box[2]
            right == ev.box[3]
            bottom == ev.box[4]
        IN  /\ right - left = w
            /\ bottom - top = h
            /\ ev.cropped = ev.size
            /\ left >= 0
            /\ top >= 0
            /\ w <= ev.canvas_size /\ h <= ev.canvas_size =>
                /\ right <= ev.canvas_size
                /\ bottom <= ev.canvas_size
                /\ left - (ev.canvas_size - right) \in -1..1
                /\ top - (ev.canvas_size - bottom) \in -1..1

\* A thumbnail wider than the canvas was cut from the left edge, and one that fits
\* the canvas in both directions would have been cut from inside it.
C23_Witness ==
    /\ Stitched
    /\ ~ev.raised
    /\ ev.size[1] > ev.canvas_size
    /\ ev.size[2] <= ev.canvas_size
    /\ ev.box[1] = 0
    /\ ev.box[2] > 0

\* C24: for every subset of the tile requests that raise or answer another status
\* than 200, all of them included, fetch_satellite_thumbnail completes and returns
\* the output path (when the image can be saved); each failed tile's cell holds the
\* gray placeholder, each other cell holds its own tile, and no two tiles share a
\* cell.
C24_TileFailuresNotFatal ==
    Stitched =>
        /\ ev.save_ok => ~ev.raised /\ ev.path = Some(ev.outpath)
        /\ DOMAIN ev.pasted = DOMAIN ev.requests
        /\ \A k \in DOMAIN ev.pasted :
            /\ ev.pasted[k].px = ev.requests[k].px
            /\ ev.pasted[k].py = ev.requests[k].py
            /\ ev.pasted[k].img =
                    IF ev.outcomes[k] = "200"
                    THEN <<"tile", ev.requests[k].tx, ev.requests[k].ty>>
                    ELSE <<"gray">>
        /\ \A j, k \in DOMAIN ev.pasted :
            ev.pasted[j].px = ev.pasted[k].px /\ ev.pasted[j].py = ev.pasted[k].py => j = k

\* Of the nine tiles of the default grid the first request raised, the second was
\* answered with another status, the others came; the path was returned.
C24_Witness ==
    /\ Stitched
    /\ ev.tiles = default_tiles
    /\ ev.outcomes = [k \in 1..9 |-> IF k = 1 THEN "raise" ELSE IF k = 2 THEN "non200" ELSE "200"]
    /\ ev.path = Some(ev.outpath)
    /\ ev.pasted[1].img = <<"gray">>
    /\ ev.pasted[3].img = <<"tile", ev.center[1] - 1, ev.center[2] + 1>>

----------------------------------------------------------------------------
(* Further claims about the detail loop *)

\* C25: every record upserted by run_scrape has a non-empty permit_number: the number
\* extracted from the detail page (the text under the first of the two selectors
\* that is not empty) when there is one, and otherwise the text of the link that led
\* to the page.
C25_PermitNumberFallback ==
    /\ \A i \in DOMAIN rows : rows[i].permit_number # <<>>
    /\ \A page \in NumberPages :
        parse_permit_detail(page).permit_number =
            IF TruthyStr(page.cap_id) THEN page.cap_id
            ELSE IF TruthyStr(page.span_permit) THEN page.span_permit
            ELSE None
    /\ Visited /\ ev.stored =>
        LET n == ev.permit_number[1]
            d == extracted[n][1].permit_number
            text == permits[pos - 1].text
        IN  /\ n # <<>>
            /\ HasPermit(rows, n)
            /\ n = IF TruthyStr(d) THEN d[1] ELSE text

\* An item whose page showed no number was stored under its link text B, after an
\* item with the link text A/1 whose page showed the number B.
C25_Witness ==
    /\ Visited
    /\ ev.stored
    /\ pos = 3
    /\ ev.permit_number = Some(<<"B">>)
    /\ permits[2].text = <<"B">>
    /\ extracted[<<"B">>][1].permit_number = None
    /\ Len(rows) = 1

----------------------------------------------------------------------------
(* Claims about the store handles and the daily pipeline *)

\* C26: every store handle opened by run_scrape, generate_recent_thumbnails or
\* render_report is closed before that operation ends, on every exit path, exceptions
\* included, so that no two store handles are ever open at the same time.
C26_StoreHandleExclusive ==
    /\ Cardinality(handles) <= 1
    /\ ev.op \in {"run_scrape_done", "run_scrape_raised", "generate_recent_thumbnails",
                  "render_report"} => ev.open = {}
    /\ ev.op \in {"generate_recent_thumbnails", "render_report"} =>
            Cardinality(ev.handles) <= 1

\* What ev can be while main is in its call of run_scrape.
ScrapeOps ==
    {"run_daily", "run_scrape", "login", "search", "paginate", "visit_item"}

\* C27: on every invocation of run_daily the scrape runs first and to completion;
\* when yesterday is a Saturday or Sunday no thumbnail generation, report rendering or
\* sending happens; otherwise the report is rendered after the scrape and sent only
\* after it is rendered, and a failure of thumbnail generation does not keep main
\* from rendering and sending.
C27_DailyOrdering ==
    /\ [](/\ main.pc = "run_scrape" => ev.op \in ScrapeOps
          /\ main.weekday # None \/ main.thumbnails # "not_called" \/ main.rendered
                \/ main.sent => main.scraped
          /\ main.weekday # None /\ main.weekday[1] >= 5 =>
                /\ main.pc = "done"
                /\ main.thumbnails = "not_called"
                /\ ~main.rendered
                /\ ~main.sent
          /\ main.sent => main.rendered
          /\ main.pc = "send" => main.rendered)
    /\ [][/\ main.pc = "run_scrape" /\ main'.pc # "run_scrape" =>
                \/ main'.pc = "weekday" /\ ev'.op = "run_scrape_done" /\ main'.scraped
                \/ main'.pc = "raised" /\ ev'.op = "run_scrape_raised"
          /\ main.pc = "generate_recent_thumbnails" /\ main' # main =>
                /\ ev'.op = "generate_recent_thumbnails"
                /\ main'.pc = "render_report"
                /\ main'.thumbnails = IF ev'.raised THEN "failed" ELSE "ok"
          /\ main.pc = "render_report" /\ main' # main =>
                /\ ev'.op = "render_report"
                /\ main'.pc = IF ev'.raised THEN "raised" ELSE "send"
          /\ main.pc = "send" /\ main' # main =>
                /\ ev'.op = "send"
                /\ ev'.via # "SystemExit" => main'.sent /\ main'.pc = "done"]_vars

\* On a weekday the thumbnails failed, and the report was rendered and sent.
C27_Witness ==
    /\ main.pc = "done"
    /\ main.weekday = Some(4)
    /\ main.thumbnails = "failed"
    /\ main.rendered
    /\ main.sent
    /\ ev.op = "send"

\* C28: when run_daily sends the report via Addy and a key was given with --addy-key,
\* the API key of the send request is the CLI key, whatever ADDY_API_KEY is in the
\* environment, unset included.
C28_AddyKeyPrecedence ==
    ev.op = "send" /\ ev.via = "addy" /\ TruthyStr(ev.addy_key) => ev.key = ev.addy_key

----------------------------------------------------------------------------
(* Further claims about the record store *)

\* C29: an upsert_permit call for permit_number k leaves every stored record whose
\* permit_number differs from k unchanged in all fields, and neither adds nor removes
\* such a record.
C29_UpsertFrame ==
    [][ev'.op = "upsert_permit" =>
          \A n \in PermitNumbers \ {ev'.permit_number} :
              /\ HasPermit(rows', n) <=> HasPermit(rows, n)
              /\ HasPermit(rows, n) => RowOf(rows', n) = RowOf(rows, n)]_vars

\* An upsert replaced the row of its permit number while the row of another permit
\* number, written at another time, was stored.
C29_Witness ==
    /\ ev.op = "upsert_permit"
    /\ ev.conflict
    /\ Len(rows) = 2
    /\ \E i \in DOMAIN rows :
        /\ rows[i].permit_number # ev.permit_number
        /\ rows[i].scraped_at # RowOf(rows, ev.permit_number).scraped_at

\* C30: within a run, two items with distinct permit numbers are never given the same
\* thumbnail output path (the permit number with '/' replaced by '_'), so that one
\* permit's thumbnail file is never overwritten by another permit's.
C30_ThumbnailPathUnique ==
    ev.op = "thumbnail_paths" /\ ev.first # ev.second =>
        /\ ev.paths[1] # ev.paths[2]
        /\ Cardinality(files) = 2

----------------------------------------------------------------------------
(* Further claims about the loops of run_scrape *)

\* C31: in each iteration of the pagination loop at most one click on a next-page
\* control is performed, also when the load wait after a click times out, so every
\* result page reached by a click has its links collected before any further click.
C31_OneClickPerPage ==
    ev.op = "paginate" => Len(ev.clicks) <= 1

\* C32: failed items do not consume the item cap: an item is visited only while fewer
\* than max_items items have been stored, a failing item leaves count as it was, the
\* detail loop ends only when max_items items have been stored or every link has been
\* visited, and the number of stored items stays at most max_items while the number
\* of detail pages navigated to may exceed it.
C32_FailuresOutsideCap ==
    /\ [][Visited' /\ pc = "detail" =>
              /\ Upserts(visited) < max_items
              /\ Len(visited') = Len(visited) + 1
              /\ count' = count + (IF ev'.stored THEN 1 ELSE 0)
              /\ Upserts(visited') = count']_vars
    /\ [][pc = "detail" /\ pc' # "detail" =>
              Upserts(visited) = max_items \/ Len(visited) = Len(permits)]_vars
    /\ [](pc = "detail" => Upserts(visited) <= max_items)

\* A run with max_items = 1 navigated to two detail pages: the first item failed and
\* the second one was stored.
C32_Witness ==
    /\ pc = "detail"
    /\ Visited
    /\ max_items = 1
    /\ Len(visited) = 2
    /\ ~visited[1].stored
    /\ visited[2].stored
    /\ Upserts(visited) = 1

====
